---- MODULE Spec2Model ----
(***************************************************************************)
(* Model of thrifty-builder: the checksum calculator, the dependency-aware *)
(* builder (Builder.build / Builder.build_all), the checksum stores and    *)
(* the command line run (build_all, pull, upload, print).                  *)
(***************************************************************************)
EXTENDS Integers, Sequences, FiniteSets, TLC

\* The configurations held by the builder's container, by identifier.
Managed == {"g", "p", "c"}
\* A configuration object that is in no container.
Unmanaged == "u"
\* A FROM reference that names no managed configuration.
External == "alpine"
\* Content versions a configuration's used files range over.
MaxVer == 1
\* Python's None, as returned by get_checksum for a missing identifier.
None == <<>>
\* The value of the optional argument allowed_builds when it is omitted.
NoneArg == {"None"}

VARIABLES
    from_image,         \* cfg -> the argument of its FROM command
    files,              \* cfg -> content version of its used files
    store,              \* the persistent checksum storage: identifier -> checksum
    kind,               \* the entry point in progress: "none", "build", "build_all"
    stack,              \* the frames of Builder.build, innermost last
    building,           \* the set _building shared by the frames of one invocation
    left_to_build,      \* build_all's local of that name
    all_build_results,  \* build_all's local of that name (keys, in insertion order)
    ba_overlay,         \* the MemoryChecksumStorage inside build_all's layered storage
    outcome,            \* "idle", "running", "returned" or the exception raised
    result,             \* keys of the returned map, in order
    backend_log,        \* history: the calls of _build, in order, with their status
    store_at_entry,     \* history: the persistent store when the invocation began
    request,            \* history: the arguments of the caller's build(cfg, allowed_builds)
    always_upload,      \* cfg -> its always_upload flag
    registries,         \* the number of configured Docker registries
    storage_is_memory,  \* the configured storage is a MemoryChecksumStorage ("stdio")
    phase,              \* the position of main: "off" when no run is modelled
    to_upload,          \* main's build_configurations_to_upload
    registry_index,     \* the registry the upload loop is at
    upload_index,       \* the position in to_upload the upload loop is at
    printed,            \* the mapping main printed
    runs,               \* the number of runs started
    pushed,             \* history: <<cfg, registry>> pushed successfully in this run
    pull_failed,        \* history: <<cfg, registry>> whose pull raised APIError
    published_before,   \* history: identifiers taken to be published before this run
    previous,           \* history: how the previous run ended, and what it built
    run_input,          \* history: the flag and stdin of the run, whether main decoded it, the error
    upload_stream,      \* _upload: the lines of the push event stream
    line_index,         \* _upload: the line of the stream being decoded
    sub_line_index,     \* _upload: the sub-line of that line being decoded
    upload_outcome,     \* _upload: "idle", "pushing", "pushed" or the error raised
    memory_data,        \* MemoryChecksumStorage._data
    disk_file,          \* the file of a DiskChecksumStorage: NoFile or its text
    consul_kv,          \* the value under the data key of a ConsulChecksumStorage
    returned,           \* what the last call returned, for each storage
    written,            \* history: identifier -> the checksum last written for it
    procs,              \* Consul storage: process -> its position, call and value read
    lock_holder,        \* Consul storage: the process whose session holds the lock
    lock_order,         \* history: the calls in the order they acquired the lock
    last_read,          \* history: what the last get_all_checksums of a process read
    writers,            \* disk storage: process -> its position in set_checksum and locals
    disk_log,           \* history: the set_checksum calls made, returned and overlapping
    container,          \* BuildConfigurationContainer._build_configurations
    container_log,      \* history: the last call on the container and what was added
    fs_tree,            \* the file system: path -> what is there
    docker_configuration, \* a DockerBuildConfiguration: its state, identifier and commands
    checksum_log        \* history: the checksums calculated and the change between them

\* the configuration, which no action changes
cvars == <<from_image, files, always_upload, registries, storage_is_memory>>
\* the variables of main
rvars == <<phase, to_upload, registry_index, upload_index, printed, runs, pushed,
           pull_failed, published_before, previous>>

\* the variables of DockerUploader._upload's decoding of the push stream
uvars == <<upload_stream, line_index, sub_line_index, upload_outcome>>

\* the variables of the three checksum storages used side by side
tvars == <<memory_data, disk_file, consul_kv, returned, written>>

\* the variables of the processes that share a Consul storage
kvars == <<procs, lock_holder, lock_order, last_read>>

\* the variables of the processes that share the file of a disk storage
dvars == <<writers, disk_log>>

\* the variables of a configuration container
nvars == <<container, container_log>>

\* the variables of a build configuration and the files it uses
fvars == <<fs_tree, docker_configuration, checksum_log>>

\* the variables of the components modelled on their own
svars == <<uvars, tvars, kvars, dvars, nvars, fvars>>

\* the variables of the builder and of main
pvars == <<cvars, rvars, run_input, store, kind, stack, building, left_to_build,
           all_build_results, ba_overlay, outcome, result, backend_log, store_at_entry,
           request>>

vars == <<pvars, svars>>

----------------------------------------------------------------------------
\* The components modelled on their own, at rest

\* No stdin was read.
NoStdin == [given |-> "none", decoded |-> FALSE, content |-> <<>>, error |-> "none",
            output_built_only |-> FALSE]

\* No push is in progress.
UploadStreamIdle ==
    /\ upload_stream = <<>>
    /\ line_index = 0
    /\ sub_line_index = 0
    /\ upload_outcome = [status |-> "idle", arguments |-> <<>>]

\* The absence of a file, and of a key in Consul's key-value store.
NoFile == [text |-> "no file", members |-> <<>>]
NoValue == [text |-> "no value", members |-> <<>>]

\* The three storages as constructed, before any call.
StoragesEmpty ==
    /\ memory_data = <<>>
    /\ disk_file = NoFile
    /\ consul_kv = NoValue
    /\ returned = [call |-> "none", argument |-> <<>>,
                   memory |-> <<>>, disk |-> <<>>, consul |-> <<>>]
    /\ written = [k \in {} |-> <<>>]

\* The processes that share the Consul storage, and no process.
Procs == {1, 2}
NoHolder == 0

\* No process has called the Consul storage, whose lock is free.
ConsulIdle ==
    /\ procs = [p \in Procs |-> [pc |-> "idle", call |-> <<>>, value |-> <<>>]]
    /\ lock_holder = NoHolder
    /\ lock_order = <<>>
    /\ last_read = [process |-> NoHolder, blob |-> NoValue]

\* No process has called set_checksum of the shared disk storage.
DiskWritersIdle ==
    /\ writers = [p \in Procs |->
                    [pc |-> "idle", id |-> "", checksum |-> <<>>,
                     configuration |-> [assigned |-> FALSE, items |-> <<>>]]]
    /\ disk_log = [calls |-> 0, overlapped |-> FALSE, raised |-> FALSE,
                   returned |-> [k \in {} |-> <<>>]]

\* An empty container, before any call.
ContainerEmpty ==
    /\ container = <<>>
    /\ container_log = [call |-> "none", raised |-> FALSE, order |-> <<>>,
                        placed |-> <<>>, resident |-> [k \in {} |-> <<>>]]

\* No configuration was constructed and no checksum calculated.
NoConfiguration == [state |-> "none", identifier |-> "", commands |-> <<>>]
NoChecksums ==
    [calculated |-> <<>>, previous |-> <<>>, change |-> "none", path |-> "",
     pending |-> "none", error |-> "none", planner |-> "none"]

\* No file system is looked at.
FilesIdle ==
    /\ fs_tree = <<>>
    /\ docker_configuration = NoConfiguration
    /\ checksum_log = NoChecksums

ComponentsIdle ==
    /\ UploadStreamIdle /\ StoragesEmpty /\ ConsulIdle /\ DiskWritersIdle
    /\ ContainerEmpty /\ FilesIdle

----------------------------------------------------------------------------
\* Sequences and dicts

Range(s) == {s[i] : i \in 1..Len(s)}

\* dict.update: the mappings of d with those of e added or overwritten
DictUpdate(d, e) ==
    [k \in DOMAIN d \cup DOMAIN e |-> IF k \in DOMAIN e THEN e[k] ELSE d[k]]

EmptyDict == [k \in {} |-> None]

----------------------------------------------------------------------------
\* Hasher and checksum calculator

\* The digest of the accumulated input.  MD5 is taken to be collision free:
\* the digest determines the input, and digests can be concatenated.
Md5Hasher(content) == <<Len(content)>> \o content

\* One Dockerfile command as hasher input: the FROM reference.
CommandCode(ref) ==
    CASE ref = "g" -> 1 [] ref = "p" -> 2 [] ref = "c" -> 3 [] OTHER -> 0

calculate_configuration_checksum(c) == Md5Hasher(<<CommandCode(from_image[c])>>)

calculate_used_files_checksum(fs, c) == Md5Hasher(<<fs[c]>>)

\* The recursion of calculate_checksum through managed parents ends iff the
\* chain of FROM references leaves the calculator's container.
RECURSIVE ChainEnds(_, _, _)
ChainEnds(mgr, c, n) ==
    IF from_image[c] \notin mgr THEN TRUE
    ELSE IF n = 0 THEN FALSE
    ELSE ChainEnds(mgr, from_image[c], n - 1)

\* calculate_checksum never returns: the interpreter raises RecursionError.
RaisesRecursionError(mgr, c) == ~ChainEnds(mgr, c, Cardinality(Managed))

RECURSIVE calculate_checksum(_, _, _)
\* (mutant) the parent's checksum is left out
calculate_dependency_checksum_no_parent(mgr, fs, c) == <<>>

calculate_dependency_checksum(mgr, fs, c) ==
    IF from_image[c] \in mgr THEN calculate_checksum(mgr, fs, from_image[c]) ELSE <<>>

\* DockerChecksumCalculator.calculate_checksum over ChecksumCalculator's
calculate_checksum(mgr, fs, c) ==
    Md5Hasher(calculate_configuration_checksum(c)
              \o Md5Hasher(calculate_used_files_checksum(fs, c)
                           \o calculate_dependency_checksum(mgr, fs, c)))

\* The builder's calculator shares the builder's container.
BuilderChecksum(c) == calculate_checksum(Managed, files, c)

----------------------------------------------------------------------------
\* Checksum storage

get_checksum(data, id) == IF id \in DOMAIN data THEN data[id] ELSE None

\* ChecksumStorage.set_all_checksums on a MemoryChecksumStorage
set_all_checksums(data, mappings) == DictUpdate(data, mappings)

\* DoubleSourceChecksumStorage: the local storage is asked first, then the
\* remote one; sets go to the local storage only.
DoubleSourceGet(local, remote_value, id) ==
    IF get_checksum(local, id) # None THEN get_checksum(local, id) ELSE remote_value

DoubleSourceSetAll(local, mappings) == set_all_checksums(local, mappings)

\* What the layered storage of frame k answers: the overlays of the frames
\* k, k-1, .. 1, then build_all's overlay, then the persistent store.
RECURSIVE LayeredGet(_, _, _, _, _)
LayeredGet(stk, bao, st, k, id) ==
    IF k = 0 THEN DoubleSourceGet(bao, get_checksum(st, id), id)
    ELSE DoubleSourceGet(stk[k].overlay, LayeredGet(stk, bao, st, k - 1, id), id)

----------------------------------------------------------------------------
\* Builder

Top == stack[Len(stack)]

\* _already_up_to_date reads self.checksum_retriever
UpToDateRaises(c) == get_checksum(store, c) # None /\ RaisesRecursionError(Managed, c)

\* (mutant) any stored checksum counts as up to date
_already_up_to_date_any_entry(c) == get_checksum(store, c) # None

_already_up_to_date(c) ==
    LET existing_checksum == get_checksum(store, c) IN
    IF existing_checksum = None THEN FALSE
    ELSE existing_checksum = BuilderChecksum(c)

\* No caller has invoked build.
NoRequest == [cfg |-> "none", allowed_builds |-> {}]

Frame(cfg, allowed) ==
    [cfg |-> cfg, allowed |-> allowed, build_results |-> <<>>,
     overlay |-> EmptyDict, pc |-> "enter"]

\* An exception leaves every frame of the invocation.
Raise(error) ==
    /\ outcome' = error
    /\ stack' = <<>>
    /\ building' = {}
    /\ left_to_build' = {}
    /\ all_build_results' = <<>>
    /\ ba_overlay' = EmptyDict
    /\ result' = <<>>
    /\ UNCHANGED <<svars, cvars, run_input, request, rvars, store, kind, backend_log, store_at_entry>>

\* What an earlier run can have left in the store for c: the checksum of its
\* earlier files (version 0), computed with or without its managed parents.
Recorded(c) ==
    {calculate_checksum({}, [x \in Managed |-> 0], c)}
    \cup (IF RaisesRecursionError(Managed, c) THEN {}
          ELSE {calculate_checksum(Managed, [x \in Managed |-> 0], c)})

StoreContents ==
    UNION {{s \in [present -> UNION {Recorded(c) : c \in present}] :
               \A c \in present : s[c] \in Recorded(c)} : present \in SUBSET Managed}

Init ==
    /\ from_image \in [Managed -> Managed \cup {External}]
    /\ files \in [Managed -> 0..MaxVer]
    /\ store \in StoreContents
    /\ kind = "none"
    /\ stack = <<>>
    /\ building = {}
    /\ left_to_build = {}
    /\ all_build_results = <<>>
    /\ ba_overlay = EmptyDict
    /\ outcome = "idle"
    /\ result = <<>>
    /\ backend_log = <<>>
    /\ store_at_entry = store
    /\ request = NoRequest
    /\ ComponentsIdle
    /\ always_upload = [c \in Managed |-> FALSE]
    /\ registries = 0
    /\ storage_is_memory = FALSE
    /\ phase = "off"
    /\ to_upload = <<>>
    /\ registry_index = 0
    /\ upload_index = 0
    /\ printed = EmptyDict
    /\ runs = 0
    /\ pushed = {}
    /\ pull_failed = {}
    /\ published_before = {}
    /\ previous = [phase |-> "none", built |-> {}]
    /\ run_input = NoStdin

\* A caller invokes build(cfg, allowed_builds) (builders.py line 97).
CallBuild(cfg, allowed_builds) ==
    /\ outcome = "idle"
    /\ kind' = "build"
    /\ outcome' = "running"
    /\ stack' = <<Frame(cfg, allowed_builds)>>
    /\ store_at_entry' = store
    /\ request' = [cfg |-> cfg, allowed_builds |-> allowed_builds]
    /\ UNCHANGED <<svars, cvars, run_input, rvars, store, building, left_to_build,
                   all_build_results, ba_overlay, result, backend_log>>

\* A caller invokes build_all() (lines 176-181).
CallBuildAll ==
    /\ outcome = "idle"
    /\ kind' = "build_all"
    /\ outcome' = "running"
    /\ ba_overlay' = EmptyDict
    /\ all_build_results' = <<>>
    /\ left_to_build' = Managed
    /\ store_at_entry' = store
    /\ UNCHANGED <<svars, cvars, run_input, request, rvars, store, stack, building, result, backend_log>>

\* (mutant) the loop takes a configuration and leaves it in left_to_build
BuildAllPopKeeps ==
    /\ outcome = "running" /\ kind = "build_all" /\ stack = <<>>
    /\ left_to_build # {}
    /\ \E build_configuration \in left_to_build :
          /\ stack' = <<Frame(build_configuration, left_to_build)>>
          /\ UNCHANGED <<svars, cvars, run_input, request, rvars, store, kind, building, left_to_build,
                         all_build_results, ba_overlay, outcome, result,
                         backend_log, store_at_entry>>

\* build_all's loop: pop any configuration, check that it was not built and
\* call build (lines 183-188).
BuildAllPop ==
    /\ outcome = "running" /\ kind = "build_all" /\ stack = <<>>
    /\ left_to_build # {}
    /\ \E build_configuration \in left_to_build :
          IF build_configuration \in Range(all_build_results)
            THEN Raise("AssertionError")
            ELSE /\ left_to_build' = left_to_build \ {build_configuration}
                 /\ stack' = <<Frame(build_configuration, left_to_build')>>
                 /\ UNCHANGED <<svars, cvars, run_input, request, rvars, store, kind, building,
                                all_build_results, ba_overlay, outcome, result,
                                backend_log, store_at_entry>>

\* build_all's loop ends (lines 183, 197-198).
BuildAllReturn ==
    /\ outcome = "running" /\ kind = "build_all" /\ stack = <<>>
    /\ left_to_build = {}
    /\ outcome' = "returned"
    /\ result' = all_build_results
    /\ UNCHANGED <<svars, cvars, run_input, request, rvars, store, kind, stack, building, left_to_build,
                   all_build_results, ba_overlay, backend_log, store_at_entry>>

\* The frame goes on with the given fields changed.
Continue(frame) ==
    /\ stack' = [stack EXCEPT ![Len(stack)] = frame]
    /\ UNCHANGED <<svars, cvars, run_input, request, rvars, store, kind, building, left_to_build,
                   all_build_results, ba_overlay, outcome, result, backend_log,
                   store_at_entry>>

\* The recursive call of line 151, after line 150's building.add.
CallParent(frame, required, left_allowed_builds) ==
    /\ building' = building \cup {required}
    /\ stack' = [stack EXCEPT ![Len(stack)] = [frame EXCEPT !.pc = "waiting"]]
                   \o <<Frame(required, left_allowed_builds)>>
    /\ UNCHANGED <<svars, cvars, run_input, request, rvars, store, kind, left_to_build, all_build_results,
                   ba_overlay, outcome, result, backend_log, store_at_entry>>

\* (mutant) what is not managed is dropped from allowed_builds
AllowedBuildsManagedOnly(allowed, cfg) ==
    ((IF allowed = NoneArg THEN Managed ELSE allowed) \cap Managed) \cup {cfg}

\* (mutant) every managed configuration is allowed, whatever the caller passed
AllowedBuildsAllManaged(allowed, cfg) ==
    (IF allowed = NoneArg THEN Managed ELSE allowed \cup Managed) \cup {cfg}

\* Lines 119 and 125: allowed_builds defaults to the managed configurations,
\* and the configuration to build is added to it.
AllowedBuilds(allowed, cfg) ==
    (IF allowed = NoneArg THEN Managed ELSE allowed) \cup {cfg}

\* build, from its entry to the call that builds the parent or to the point
\* where the backend is to be called (lines 113-152).
BuildEnter ==
    /\ outcome = "running" /\ stack # <<>> /\ Top.pc = "enter"
    /\ LET build_configuration == Top.cfg
           allowed_builds == AllowedBuilds(Top.allowed, build_configuration)
           frame == [Top EXCEPT !.allowed = allowed_builds]
           required == from_image[build_configuration]
       IN  IF build_configuration \notin Managed
             THEN Raise("UnmanagedBuildError")
           ELSE IF ~(allowed_builds \subseteq Managed)
             THEN Raise("UnmanagedBuildError")
           ELSE IF UpToDateRaises(build_configuration)
             THEN Raise("RecursionError")
           ELSE IF _already_up_to_date(build_configuration)
             THEN Continue([frame EXCEPT !.pc = "return"])
           ELSE IF ~(required \in Managed /\ required \in allowed_builds)
             THEN Continue([frame EXCEPT !.pc = "backend"])
           ELSE IF UpToDateRaises(required)
             THEN Raise("RecursionError")
           ELSE IF _already_up_to_date(required)
             THEN Continue([frame EXCEPT !.pc = "backend"])
           ELSE IF required \in building
             THEN Raise("CircularDependencyBuildError")
           ELSE CallParent(frame, required,
                           allowed_builds \ Range(frame.build_results))

\* The checksums of line 160 (and 192), or the error of computing them.
ChecksumsRaise(keys) == \E x \in keys : RaisesRecursionError(Managed, x)

Checksums(keys) == [x \in keys |-> BuilderChecksum(x)]

\* (mutant) line 161 writes the checksums to self.checksum_retriever
RecordInRetriever(caller, build_results) ==
    /\ stack' = [SubSeq(stack, 1, Len(stack) - 1)
                    EXCEPT ![Len(stack) - 1] =
                        [caller EXCEPT !.build_results = build_results,
                                       !.pc = "backend"]]
    /\ store' = set_all_checksums(store, Checksums(Range(build_results)))

\* Lines 157-161: the caller's frame takes the results, and the checksums of
\* what was built go to its layered storage.
RecordInLayeredStorage(caller, build_results) ==
    /\ stack' = [SubSeq(stack, 1, Len(stack) - 1)
                    EXCEPT ![Len(stack) - 1] =
                        [caller EXCEPT
                           !.build_results = build_results,
                           !.overlay = DoubleSourceSetAll(
                               caller.overlay, Checksums(Range(build_results))),
                           !.pc = "backend"]]
    /\ UNCHANGED store

\* The parent's build returned: lines 153-161, then the loop's end.
BuildParentReturn ==
    /\ outcome = "running" /\ Len(stack) >= 2 /\ Top.pc = "return"
    /\ LET caller == stack[Len(stack) - 1]
           parent_build_results == Top.build_results
           build_results == caller.build_results \o parent_build_results
       IN  IF Range(caller.build_results) \cap Range(parent_build_results) # {}
             THEN Raise("AssertionError")
           ELSE IF ChecksumsRaise(Range(build_results))
             THEN Raise("RecursionError")
           ELSE /\ building' = building \ {Top.cfg}
                /\ RecordInLayeredStorage(caller, build_results)
                /\ UNCHANGED <<svars, cvars, run_input, request, rvars, kind, left_to_build,
                               all_build_results, ba_overlay, outcome, result,
                               backend_log, store_at_entry>>

\* self._build(build_configuration) is called (line 164).
BackendBegin ==
    /\ outcome = "running" /\ stack # <<>> /\ Top.pc = "backend"
    /\ backend_log' = Append(backend_log, [cfg |-> Top.cfg, status |-> "running"])
    /\ stack' = [stack EXCEPT ![Len(stack)].pc = "in_backend"]
    /\ UNCHANGED <<svars, cvars, run_input, request, rvars, store, kind, building, left_to_build,
                   all_build_results, ba_overlay, outcome, result, store_at_entry>>

LogStatus(status) ==
    [backend_log EXCEPT ![Len(backend_log)].status = status]

\* _build returns the image: lines 165-169.
BackendReturn ==
    /\ outcome = "running" /\ stack # <<>> /\ Top.pc = "in_backend"
    /\ IF ~(Top.cfg \notin Range(Top.build_results)
             /\ Range(Top.build_results) \cup {Top.cfg} \subseteq Top.allowed)
         THEN /\ outcome' = "AssertionError"
              /\ stack' = <<>>
              /\ building' = {}
              /\ left_to_build' = {}
              /\ all_build_results' = <<>>
              /\ ba_overlay' = EmptyDict
              /\ UNCHANGED result
         ELSE /\ stack' = [stack EXCEPT ![Len(stack)] =
                              [Top EXCEPT
                                 !.build_results = Append(@, Top.cfg),
                                 !.pc = "return"]]
              /\ UNCHANGED <<building, left_to_build, all_build_results,
                             ba_overlay, outcome, result>>
    /\ backend_log' = LogStatus("ok")
    /\ UNCHANGED <<svars, cvars, run_input, request, rvars, store, kind, store_at_entry>>

\* (mutant) build catches the error of _build and returns what it has
BackendFailCaught ==
    /\ outcome = "running" /\ stack # <<>> /\ Top.pc = "in_backend"
    /\ backend_log' = LogStatus("failed")
    /\ stack' = [stack EXCEPT ![Len(stack)].pc = "return"]
    /\ UNCHANGED <<svars, cvars, run_input, request, rvars, store, kind, building, left_to_build,
                   all_build_results, ba_overlay, outcome, result, store_at_entry>>

\* _build raises BuildFailedError, which no caller catches.
BackendFail ==
    /\ outcome = "running" /\ stack # <<>> /\ Top.pc = "in_backend"
    /\ backend_log' = LogStatus("failed")
    /\ outcome' = "BuildFailedError"
    /\ stack' = <<>>
    /\ building' = {}
    /\ left_to_build' = {}
    /\ all_build_results' = <<>>
    /\ ba_overlay' = EmptyDict
    /\ UNCHANGED <<svars, cvars, run_input, request, rvars, store, kind, result, store_at_entry>>

\* build returns to the caller of build (line 132 or 169).
BuildReturn ==
    /\ outcome = "running" /\ kind = "build"
    /\ Len(stack) = 1 /\ Top.pc = "return"
    /\ outcome' = "returned"
    /\ result' = Top.build_results
    /\ stack' = <<>>
    /\ UNCHANGED <<svars, cvars, run_input, request, rvars, store, kind, building, left_to_build,
                   all_build_results, ba_overlay, backend_log, store_at_entry>>

\* (mutant) what build built stays in left_to_build
RemainingKeepsBuilt(left, build_results) == left

\* Line 195: what build built is no longer left to build.
RemainingAfter(left, build_results) == left \ Range(build_results)

\* (mutant) line 193 writes the checksums to self.checksum_retriever
BuildAllRecordInRetriever(checksums) ==
    /\ store' = set_all_checksums(store, checksums)
    /\ UNCHANGED ba_overlay

\* Line 193: the checksums of what was built go to build_all's layered storage.
BuildAllRecord(checksums) ==
    /\ ba_overlay' = DoubleSourceSetAll(ba_overlay, checksums)
    /\ UNCHANGED store

\* build returns to build_all: lines 189-195.
BuildAllCollect ==
    /\ outcome = "running" /\ kind = "build_all"
    /\ Len(stack) = 1 /\ Top.pc = "return"
    /\ LET build_results == Top.build_results IN
       IF ChecksumsRaise(Range(build_results))
         THEN Raise("RecursionError")
       ELSE /\ all_build_results' =
                   all_build_results
                       \o SelectSeq(build_results,
                                    LAMBDA x : x \notin Range(all_build_results))
            /\ BuildAllRecord(Checksums(Range(build_results)))
            /\ left_to_build' = RemainingAfter(left_to_build, build_results)
            /\ stack' = <<>>
            /\ UNCHANGED <<svars, cvars, run_input, request, rvars, kind, building, outcome,
                           result, backend_log, store_at_entry>>

----------------------------------------------------------------------------
\* The command line run: main (cli.py)

\* Bounds of the run model
MaxRegistries == 2
MaxRuns == 2

\* The iteration order of configuration.docker_build_configurations
ContainerOrder == <<"g", "p", "c">>

\* The uploader main creates has a calculator of its own, with an empty
\* container (uploader.py line 80, checksums.py line 23).
UploaderChecksum(c) == calculate_checksum({}, files, c)

RunInit ==
    /\ from_image \in {f \in [Managed -> Managed \cup {External}] : f["g"] = External}
    /\ files = [c \in Managed |-> 0]
    /\ always_upload \in {f \in [Managed -> BOOLEAN] :
                             Cardinality({c \in Managed : f[c]}) <= 1}
    /\ registries \in 0..MaxRegistries
    /\ storage_is_memory \in BOOLEAN
    /\ store \in (IF storage_is_memory THEN {EmptyDict} ELSE StoreContents)
    /\ kind = "none"
    /\ stack = <<>>
    /\ building = {}
    /\ left_to_build = {}
    /\ all_build_results = <<>>
    /\ ba_overlay = EmptyDict
    /\ outcome = "idle"
    /\ result = <<>>
    /\ backend_log = <<>>
    /\ store_at_entry = store
    /\ request = NoRequest
    /\ ComponentsIdle
    /\ phase = "idle"
    /\ to_upload = <<>>
    /\ registry_index = 0
    /\ upload_index = 0
    /\ printed = EmptyDict
    /\ runs = 0
    /\ pushed = {}
    /\ pull_failed = {}
    /\ published_before = DOMAIN store
    /\ previous = [phase |-> "none", built |-> {}]
    /\ run_input = NoStdin

\* What main can be given as stdin_content: None (a terminal), the empty
\* string, a text that is not JSON, the JSON text of a mapping.
StdinGiven == {"none", "empty", "invalid", "json"}

\* (mutant) stdin is decoded whatever the storage
SeedsFromAnyStdin(is_memory, given) == given \notin {"none", "empty"}

\* cli.py line 93: the storage is a MemoryChecksumStorage and stdin_content
\* is neither None nor empty.
SeedsFromStdin(is_memory, given) == is_memory /\ given \notin {"none", "empty"}

\* What json.loads raises for a text that is not JSON (cli.py line 95).
StdinDecodeError == "JSONDecodeError"

\* main starts: a memory storage is created empty and takes the checksums
\* read from stdin (any content in the first run, what the previous run
\* printed in a later one); then the builder is created and build_all called
\* (cli.py lines 86-99).  A later run follows a run that ended or was killed.
RunStart ==
    /\ phase \in {"idle", "done", "crashed"}
    /\ runs < MaxRuns
    /\ runs' = runs + 1
    /\ previous' = [phase |-> phase, built |-> Range(result)]
    /\ \E output_built_only \in BOOLEAN :
       \E given \in (IF runs = 0 THEN StdinGiven ELSE {"json"}) :
       \E stdin_content \in (IF given # "json" THEN {EmptyDict}
                              ELSE IF runs = 0 THEN StoreContents ELSE {printed}) :
          /\ ~(SeedsFromStdin(storage_is_memory, given) /\ given = "invalid")
          /\ store' = IF SeedsFromStdin(storage_is_memory, given)
                        THEN set_all_checksums(EmptyDict, stdin_content)
                      ELSE IF storage_is_memory THEN EmptyDict
                      ELSE store
          /\ run_input' =
                [given |-> given,
                 decoded |-> SeedsFromStdin(storage_is_memory, given),
                 content |-> IF SeedsFromStdin(storage_is_memory, given)
                               THEN stdin_content ELSE <<>>,
                 error |-> "none",
                 output_built_only |-> output_built_only]
    /\ published_before' = published_before \cup {x[1] : x \in pushed}
    /\ phase' = "build_all"
    /\ kind' = "build_all"
    /\ outcome' = "running"
    /\ ba_overlay' = EmptyDict
    /\ all_build_results' = <<>>
    /\ left_to_build' = Managed
    /\ store_at_entry' = store'
    /\ stack' = <<>>
    /\ building' = {}
    /\ result' = <<>>
    /\ backend_log' = <<>>
    /\ to_upload' = <<>>
    /\ registry_index' = 0
    /\ upload_index' = 0
    /\ printed' = EmptyDict
    /\ pushed' = {}
    /\ pull_failed' = {}
    /\ UNCHANGED <<svars, cvars, request>>

\* main starts with a memory storage and a stdin that is not JSON: json.loads
\* raises at line 95, before the builder is created, and main ends with that
\* error.
RunStdinUnreadable ==
    /\ phase \in {"idle", "done", "crashed"}
    /\ runs < MaxRuns
    /\ SeedsFromStdin(storage_is_memory, "invalid")
    /\ runs' = runs + 1
    /\ previous' = [phase |-> phase, built |-> Range(result)]
    /\ store' = IF storage_is_memory THEN EmptyDict ELSE store
    /\ \E output_built_only \in BOOLEAN :
          run_input' = [given |-> "invalid", decoded |-> TRUE, content |-> <<>>,
                        error |-> StdinDecodeError,
                        output_built_only |-> output_built_only]
    /\ published_before' = published_before \cup {x[1] : x \in pushed}
    /\ phase' = "unreadable"
    /\ kind' = "none"
    /\ outcome' = "idle"
    /\ ba_overlay' = EmptyDict
    /\ all_build_results' = <<>>
    /\ left_to_build' = {}
    /\ store_at_entry' = store'
    /\ stack' = <<>>
    /\ building' = {}
    /\ result' = <<>>
    /\ backend_log' = <<>>
    /\ to_upload' = <<>>
    /\ registry_index' = 0
    /\ upload_index' = 0
    /\ printed' = EmptyDict
    /\ pushed' = {}
    /\ pull_failed' = {}
    /\ UNCHANGED <<svars, cvars, request>>

\* build_all raised: main ends with the error.
RunBuildFailed ==
    /\ phase = "build_all"
    /\ outcome \notin {"running", "returned"}
    /\ phase' = "failed"
    /\ UNCHANGED <<svars, cvars, run_input, request, store, kind, stack, building, left_to_build,
                   all_build_results, ba_overlay, outcome, result, backend_log,
                   store_at_entry, to_upload, registry_index, upload_index, printed,
                   runs, pushed, pull_failed, published_before, previous>>

\* The process is killed after build_all returned and before anything is
\* pulled or uploaded.
RunCrash ==
    /\ phase = "build_all"
    /\ outcome = "returned"
    /\ phase' = "crashed"
    /\ UNCHANGED <<svars, cvars, run_input, request, store, kind, stack, building, left_to_build,
                   all_build_results, ba_overlay, outcome, result, backend_log,
                   store_at_entry, to_upload, registry_index, upload_index, printed,
                   runs, pushed, pull_failed, published_before, previous>>

\* (mutant) the pull loop adds nothing to the configurations to upload
AlwaysUploadNone(built) == <<>>

\* The configurations the pull loop adds, in container order (cli.py lines 104-123).
AlwaysUploadOnly(built) ==
    SelectSeq(ContainerOrder, LAMBDA c : always_upload[c] /\ c \notin Range(built))

\* (mutant) a configuration with a failed pull is not added
ToUploadWithoutFailedPull(built, failed) ==
    built \o SelectSeq(AlwaysUploadOnly(built),
                       LAMBDA c : \A r \in 1..registries : <<c, r>> \notin failed)

\* (mutant) the always_upload configurations come before the built ones
ToUploadAlwaysFirst(built, failed) == AlwaysUploadOnly(built) \o built

\* cli.py lines 103 and 123: an always_upload configuration is appended after
\* the loop over the registries, whichever pulls raised.
ToUploadAfterPull(built, failed) == built \o AlwaysUploadOnly(built)

\* cli.py lines 101-127: the configurations to upload are those just built, then
\* each always_upload configuration that was not built, after an attempt to
\* pull it from every registry; a pull that raises APIError is logged.
RunPull ==
    /\ phase = "build_all"
    /\ outcome = "returned"
    /\ \E failed \in SUBSET (Range(AlwaysUploadOnly(result)) \X (1..registries)) :
          /\ pull_failed' = failed
          /\ to_upload' = ToUploadAfterPull(result, failed)
    /\ IF registries = 0 \/ to_upload' = <<>>
         THEN /\ phase' = "print"
              /\ UNCHANGED <<registry_index, upload_index>>
         ELSE /\ phase' = "upload"
              /\ registry_index' = 1
              /\ upload_index' = 1
    /\ UNCHANGED <<svars, cvars, run_input, request, store, kind, stack, building, left_to_build,
                   all_build_results, ba_overlay, outcome, result, backend_log,
                   store_at_entry, printed, runs, pushed, published_before, previous>>

\* uploader.upload, line 66: _upload tags and pushes the image.
UploadPush ==
    /\ phase = "upload"
    /\ pushed' = pushed \cup {<<to_upload[upload_index], registry_index>>}
    /\ phase' = "record"
    /\ UNCHANGED <<svars, cvars, run_input, request, store, kind, stack, building, left_to_build,
                   all_build_results, ba_overlay, outcome, result, backend_log,
                   store_at_entry, to_upload, registry_index, upload_index, printed,
                   runs, pull_failed, published_before, previous>>

\* The checksum upload records for a configuration (line 67).
upload_checksum(c) == UploaderChecksum(c)

\* (mutant) upload records the checksum before _upload raises
UploadFailAfterRecord ==
    /\ phase = "upload"
    /\ phase' = "failed"
    /\ outcome' = "UploadError"
    /\ store' = set_all_checksums(
                    store,
                    [id \in {to_upload[upload_index]} |->
                        upload_checksum(to_upload[upload_index])])
    /\ UNCHANGED <<svars, cvars, run_input, request, kind, stack, building, left_to_build,
                   all_build_results, ba_overlay, result, backend_log,
                   store_at_entry, to_upload, registry_index, upload_index, printed,
                   runs, pushed, pull_failed, published_before, previous>>

\* _upload raises (ImageNotFoundError, UploadError, NamespaceUnknown): main
\* ends with the error.
UploadFail ==
    /\ phase = "upload"
    /\ phase' = "failed"
    /\ outcome' = "UploadError"
    /\ UNCHANGED <<svars, cvars, run_input, request, store, kind, stack, building, left_to_build,
                   all_build_results, ba_overlay, result, backend_log,
                   store_at_entry, to_upload, registry_index, upload_index, printed,
                   runs, pushed, pull_failed, published_before, previous>>

\* uploader.upload, lines 67-68, then the loops of cli.py lines 130-133 go on.
UploadRecord ==
    /\ phase = "record"
    /\ LET build_configuration == to_upload[upload_index] IN
       store' = set_all_checksums(
                    store,
                    [id \in {build_configuration} |-> upload_checksum(build_configuration)])
    /\ IF upload_index < Len(to_upload)
         THEN /\ upload_index' = upload_index + 1
              /\ UNCHANGED registry_index
              /\ phase' = "upload"
         ELSE IF registry_index < registries
           THEN /\ upload_index' = 1
                /\ registry_index' = registry_index + 1
                /\ phase' = "upload"
           ELSE /\ UNCHANGED <<upload_index, registry_index>>
                /\ phase' = "print"
    /\ UNCHANGED <<svars, cvars, run_input, request, kind, stack, building, left_to_build,
                   all_build_results, ba_overlay, outcome, result, backend_log,
                   store_at_entry, to_upload, printed, runs, pushed, pull_failed,
                   published_before, previous>>

\* (mutant) the output is all_built whatever the flag
OutputAllBuilt(output_built_only, built) == Checksums(Managed)

\* cli.py lines 135-146: built_now with the flag --built-only, else all_built.
Output(output_built_only, built) ==
    IF output_built_only THEN Checksums(built) ELSE Checksums(Managed)

\* cli.py lines 135-149: the checksums of the builder's calculator are printed,
\* of the configurations just built or of all of them.
RunPrint ==
    /\ phase = "print"
    /\ IF ChecksumsRaise(Managed)
         THEN /\ phase' = "failed"
              /\ outcome' = "RecursionError"
              /\ UNCHANGED printed
         ELSE /\ phase' = "done"
              /\ UNCHANGED outcome
              /\ printed' = Output(run_input.output_built_only, Range(result))
    /\ UNCHANGED <<svars, cvars, run_input, request, store, kind, stack, building, left_to_build,
                   all_build_results, ba_overlay, result, backend_log,
                   store_at_entry, to_upload, registry_index, upload_index,
                   runs, pushed, pull_failed, published_before, previous>>

\* The values a caller can pass as allowed_builds.
AllowedArgs == {NoneArg} \cup SUBSET (Managed \cup {Unmanaged})

Next ==
    \/ \E cfg \in Managed \cup {Unmanaged}, allowed \in AllowedArgs :
          CallBuild(cfg, allowed)
    \/ CallBuildAll
    \/ BuildAllPop
    \/ BuildAllCollect
    \/ BuildAllReturn
    \/ BuildEnter
    \/ BuildParentReturn
    \/ BackendBegin
    \/ BackendReturn
    \/ BackendFail
    \/ BuildReturn

Spec == Init /\ [][Next]_vars

\* build_all() alone, run to its end: the interpreter goes on executing as
\* long as a step of the call is left.
BuildAllNext ==
    \/ CallBuildAll
    \/ BuildAllPop
    \/ BuildAllCollect
    \/ BuildAllReturn
    \/ BuildEnter
    \/ BuildParentReturn
    \/ BackendBegin
    \/ BackendReturn
    \/ BackendFail

BuildAllSpec == Init /\ [][BuildAllNext]_vars /\ WF_vars(BuildAllNext)

RunNext ==
    \/ RunStart
    \/ RunStdinUnreadable
    \/ BuildAllPop
    \/ BuildAllCollect
    \/ BuildAllReturn
    \/ BuildEnter
    \/ BuildParentReturn
    \/ BackendBegin
    \/ BackendReturn
    \/ BackendFail
    \/ RunBuildFailed
    \/ RunCrash
    \/ RunPull
    \/ UploadPush
    \/ UploadFail
    \/ UploadRecord
    \/ RunPrint

RunSpec == RunInit /\ [][RunNext]_vars

----------------------------------------------------------------------------
\* The builder and main at rest, while a component is modelled on its own

BuilderIdle ==
    /\ from_image = [c \in Managed |-> External]
    /\ files = [c \in Managed |-> 0]
    /\ store = EmptyDict
    /\ kind = "none"
    /\ stack = <<>>
    /\ building = {}
    /\ left_to_build = {}
    /\ all_build_results = <<>>
    /\ ba_overlay = EmptyDict
    /\ outcome = "idle"
    /\ result = <<>>
    /\ backend_log = <<>>
    /\ store_at_entry = store
    /\ request = NoRequest
    /\ always_upload = [c \in Managed |-> FALSE]
    /\ registries = 0
    /\ storage_is_memory = FALSE
    /\ phase = "off"
    /\ to_upload = <<>>
    /\ registry_index = 0
    /\ upload_index = 0
    /\ printed = EmptyDict
    /\ runs = 0
    /\ pushed = {}
    /\ pull_failed = {}
    /\ published_before = {}
    /\ previous = [phase |-> "none", built |-> {}]
    /\ run_input = NoStdin

----------------------------------------------------------------------------
\* DockerUploader._upload: the decoding of the push event stream
\* (uploader.py lines 107-119)

\* Bounds of the stream
MaxLines == 2
MaxSubLines == 2

\* A text is a sequence of phrases.
ErrorTexts == {<<"denied">>, <<"tag latest:", "image does not exist">>}

\* (mutant) no text is taken to hold the phrase
ContainsNothing(text, phrase) == FALSE

\* Python's `phrase in text`
Contains(text, phrase) == \E i \in 1..Len(text) : text[i] = phrase

\* What json.loads makes of a sub-line of the stream: an object with a status
\* or with an error.
PushEvents ==
    {[status |-> <<"Pushing">>]} \cup {[error |-> t] : t \in ErrorTexts}

\* The empty sub-line, which line.split leaves after a trailing separator.
EmptySubLine == <<>>

SubLines == {EmptySubLine} \cup PushEvents

\* What line.split("\r\n") gives for a line: one sub-line or more.
Lines == UNION {[1..n -> SubLines] : n \in 1..MaxSubLines}

Streams == UNION {[1..n -> Lines] : n \in 0..MaxLines}

\* `"error" in parsed_sub_line`
HasError(sub_line) == sub_line # EmptySubLine /\ "error" \in DOMAIN sub_line

\* The arguments ImageNotFoundError is raised with: the name and the tag of
\* the build configuration.
ImageNameAndTag == <<"name", "tag">>

\* _upload has tagged the image and begins to read the stream of the push.
PushStreamInit ==
    /\ BuilderIdle
    /\ upload_stream \in Streams
    /\ line_index = 1
    /\ sub_line_index = 1
    /\ upload_outcome = [status |-> "pushing", arguments |-> <<>>]
    /\ StoragesEmpty
    /\ ConsulIdle
    /\ DiskWritersIdle
    /\ ContainerEmpty
    /\ FilesIdle

\* One turn of the inner loop (lines 109-119): a sub-line that is not empty is
\* parsed, and an error in it is raised.
DecodeSubLine ==
    /\ upload_outcome.status = "pushing"
    /\ line_index <= Len(upload_stream)
    /\ LET line == upload_stream[line_index]
           sub_line == line[sub_line_index]
       IN  IF HasError(sub_line)
             THEN /\ upload_outcome' =
                         IF Contains(sub_line["error"], "image does not exist")
                           THEN [status |-> "ImageNotFoundError",
                                 arguments |-> ImageNameAndTag]
                           ELSE [status |-> "UploadError",
                                 arguments |-> <<sub_line["error"]>>]
                  /\ UNCHANGED <<line_index, sub_line_index>>
             ELSE /\ IF sub_line_index < Len(line)
                        THEN /\ sub_line_index' = sub_line_index + 1
                             /\ UNCHANGED line_index
                        ELSE /\ sub_line_index' = 1
                             /\ line_index' = line_index + 1
                  /\ UNCHANGED upload_outcome
    /\ UNCHANGED <<pvars, fvars, tvars, kvars, dvars, nvars, upload_stream>>

\* The stream is exhausted (line 107): _upload returns.
PushCompletes ==
    /\ upload_outcome.status = "pushing"
    /\ line_index > Len(upload_stream)
    /\ upload_outcome' = [status |-> "pushed", arguments |-> <<>>]
    /\ UNCHANGED <<pvars, fvars, tvars, kvars, dvars, nvars, upload_stream, line_index, sub_line_index>>

PushStreamNext == DecodeSubLine \/ PushCompletes

PushStreamSpec == PushStreamInit /\ [][PushStreamNext]_vars

----------------------------------------------------------------------------
\* The checksum storages (storage.py), used by one process

\* The identifiers and checksums of the calls, in sorting order.
IdOrder == <<"a", "b", "c">>
Ids == Range(IdOrder)
ChecksumValues == {<<1>>, <<2>>}

\* A Python dict: its items in insertion order, as pairs <<key, value>>.
Keys(d) == {d[i][1] : i \in 1..Len(d)}

\* The dict as a mapping, whatever the order of its items.
AsMap(d) ==
    [k \in Keys(d) |->
        d[CHOOSE i \in 1..Len(d) :
             d[i][1] = k /\ \A j \in 1..Len(d) : d[j][1] = k => j <= i][2]]

\* d.get(key, None)
DictGet(d, key) ==
    IF key \in Keys(d)
      THEN d[CHOOSE i \in 1..Len(d) : d[i][1] = key][2]
      ELSE None

\* d[key] = value: a key that is present keeps its place.
DictSetItem(d, key, value) ==
    IF key \in Keys(d)
      THEN [i \in 1..Len(d) |-> IF d[i][1] = key THEN <<key, value>> ELSE d[i]]
      ELSE Append(d, <<key, value>>)

\* d.update(mapping), item by item
RECURSIVE DictUpdateItems(_, _)
DictUpdateItems(d, mapping) ==
    IF mapping = <<>> THEN d
    ELSE DictUpdateItems(DictSetItem(d, Head(mapping)[1], Head(mapping)[2]),
                         Tail(mapping))

\* The mappings a caller can pass to set_all_checksums: dicts over the
\* identifiers, in any order of insertion.
Mappings ==
    {m \in UNION {[1..n -> Ids \X ChecksumValues] : n \in 0..Len(IdOrder)} :
        \A i, j \in 1..Len(m) : i # j => m[i][1] # m[j][1]}

\* json.dumps(d): the text of the object, its members in the dict's order.
JsonDumps(d) == [text |-> "object", members |-> d]

\* json.dumps(d, sort_keys=True)
JsonDumpsSorted(d) ==
    [text |-> "object",
     members |-> LET present == SelectSeq(IdOrder, LAMBDA k : k \in Keys(d))
                 IN  [i \in 1..Len(present) |-> <<present[i], DictGet(d, present[i])>>]]

\* json.loads(text): the dict of the members, a later member replacing an
\* earlier one of the same name.
JsonLoads(json) == DictUpdateItems(<<>>, json.members)

\* MemoryChecksumStorage (lines 67-74)
MemoryGet(data, id) == DictGet(data, id)

MemoryGetAll(data) == data

MemorySet(data, id, checksum) == DictSetItem(data, id, checksum)

\* ChecksumStorage.set_all_checksums (lines 50-56) on a memory storage
RECURSIVE MemorySetAll(_, _)
MemorySetAll(data, mapping) ==
    IF mapping = <<>> THEN data
    ELSE MemorySetAll(MemorySet(data, Head(mapping)[1], Head(mapping)[2]),
                      Tail(mapping))

\* DiskChecksumStorage.get_all_checksums (lines 90-95)
DiskGetAll(file) == IF file = NoFile THEN <<>> ELSE JsonLoads(file)

\* DiskChecksumStorage.get_checksum (lines 87-88)
DiskGet(file, id) == DictGet(DiskGetAll(file), id)

\* (mutant) set_checksum starts from an empty configuration
DiskSetReadNothing(file) == <<>>

\* DiskChecksumStorage.set_checksum, lines 98-106: the configuration read.
DiskSetRead(file) == IF file = NoFile THEN <<>> ELSE JsonLoads(file)

\* DiskChecksumStorage.set_checksum, lines 107-109: the file rewritten.
DiskSetWrite(configuration, id, checksum) ==
    JsonDumps(DictSetItem(configuration, id, checksum))

DiskSet(file, id, checksum) == DiskSetWrite(DiskSetRead(file), id, checksum)

\* ChecksumStorage.set_all_checksums (lines 50-56) on a disk storage
RECURSIVE DiskSetAll(_, _)
DiskSetAll(file, mapping) ==
    IF mapping = <<>> THEN file
    ELSE DiskSetAll(DiskSet(file, Head(mapping)[1], Head(mapping)[2]), Tail(mapping))

\* ConsulChecksumStorage.get_all_checksums (lines 176-181)
ConsulGetAll(kv) == IF kv = NoValue THEN <<>> ELSE JsonLoads(kv)

\* ConsulChecksumStorage.get_checksum (lines 173-174)
ConsulGet(kv, id) == DictGet(ConsulGetAll(kv), id)

\* ConsulChecksumStorage.set_checksum, lines 186-187: what is put for the
\* value read.
ConsulSetPut(value, id, checksum) == JsonDumpsSorted(DictSetItem(value, id, checksum))

\* (mutant) set_all_checksums puts the mapping alone
ConsulSetAllPutMapping(value, mapping) == JsonDumpsSorted(DictUpdateItems(<<>>, mapping))

\* (mutant) set_all_checksums puts the value with the first item of the
\* mapping alone
ConsulSetAllPutFirst(value, mapping) ==
    JsonDumpsSorted(DictSetItem(value, mapping[1][1], mapping[1][2]))

\* ConsulChecksumStorage.set_all_checksums, lines 192-193
ConsulSetAllPut(value, mapping) == JsonDumpsSorted(DictUpdateItems(value, mapping))

\* The three storages are created, the file and the key not yet existing.
StorageInit ==
    /\ BuilderIdle
    /\ UploadStreamIdle
    /\ StoragesEmpty
    /\ ConsulIdle
    /\ DiskWritersIdle
    /\ ContainerEmpty
    /\ FilesIdle

\* get_checksum(id) on each storage
StorageGet(id) ==
    /\ returned' = [call |-> "get", argument |-> <<id>>,
                    memory |-> MemoryGet(memory_data, id),
                    disk |-> DiskGet(disk_file, id),
                    consul |-> ConsulGet(consul_kv, id)]
    /\ UNCHANGED <<pvars, fvars, uvars, kvars, dvars, nvars, memory_data, disk_file, consul_kv, written>>

\* get_all_checksums() on each storage
StorageGetAll ==
    /\ returned' = [call |-> "get_all", argument |-> <<>>,
                    memory |-> MemoryGetAll(memory_data),
                    disk |-> DiskGetAll(disk_file),
                    consul |-> ConsulGetAll(consul_kv)]
    /\ UNCHANGED <<pvars, fvars, uvars, kvars, dvars, nvars, memory_data, disk_file, consul_kv, written>>

\* set_checksum(id, checksum) on each storage
StorageSet(id, checksum) ==
    /\ memory_data' = MemorySet(memory_data, id, checksum)
    /\ disk_file' = DiskSet(disk_file, id, checksum)
    /\ consul_kv' = ConsulSetPut(ConsulGetAll(consul_kv), id, checksum)
    /\ returned' = [call |-> "set", argument |-> <<id, checksum>>,
                    memory |-> None, disk |-> None, consul |-> None]
    /\ written' = DictUpdate(written, [k \in {id} |-> checksum])
    /\ UNCHANGED <<pvars, fvars, uvars, kvars, dvars, nvars>>

\* set_all_checksums(mapping) on each storage
StorageSetAll(mapping) ==
    /\ memory_data' = MemorySetAll(memory_data, mapping)
    /\ disk_file' = DiskSetAll(disk_file, mapping)
    /\ consul_kv' = ConsulSetAllPut(ConsulGetAll(consul_kv), mapping)
    /\ returned' = [call |-> "set_all", argument |-> mapping,
                    memory |-> None, disk |-> None, consul |-> None]
    /\ written' = DictUpdate(written, AsMap(mapping))
    /\ UNCHANGED <<pvars, fvars, uvars, kvars, dvars, nvars>>

StorageNext ==
    \/ \E id \in Ids : StorageGet(id)
    \/ StorageGetAll
    \/ \E id \in Ids, checksum \in ChecksumValues : StorageSet(id, checksum)
    \/ \E mapping \in Mappings : StorageSetAll(mapping)

StorageSpec == StorageInit /\ [][StorageNext]_vars

----------------------------------------------------------------------------
\* ConsulChecksumStorage shared by several processes (storage.py lines 167-193)

\* The number of set and set_all calls the processes make in all.
MaxCalls == 3

\* The calls of process p: it writes checksums of its own, to tell the
\* writers apart.
ConsulCalls(p) ==
    {[op |-> "set", mapping |-> <<<<id, <<p>>>>>>] : id \in {"a", "b"}}
    \cup {[op |-> "set_all", mapping |-> <<<<"a", <<p>>>>, <<"b", <<p>>>>>>]}

\* The calls begun: those that have the lock or had it, and those waiting.
CallsBegun ==
    Len(lock_order) + Cardinality({p \in Procs : procs[p].pc = "acquire"})

\* The storage of the processes at rest, its key not yet existing.
ConsulInit ==
    /\ BuilderIdle
    /\ UploadStreamIdle
    /\ StoragesEmpty
    /\ ConsulIdle
    /\ DiskWritersIdle
    /\ ContainerEmpty
    /\ FilesIdle

\* Process p calls set_checksum or set_all_checksums, which asks for the lock
\* (lines 184 and 190).
ConsulCall(p, call) ==
    /\ procs[p].pc = "idle"
    /\ CallsBegun < MaxCalls
    /\ procs' = [procs EXCEPT ![p] = [pc |-> "acquire", call |-> call, value |-> <<>>]]
    /\ UNCHANGED <<pvars, fvars, uvars, tvars, dvars, nvars, lock_holder, lock_order, last_read>>

\* (mutant) the lock is given although another process holds it
ConsulAcquireHeldLock(p) ==
    /\ procs[p].pc = "acquire"
    /\ lock_holder' = p
    /\ procs' = [procs EXCEPT ![p].pc = "locked"]
    /\ lock_order' = Append(lock_order, [process |-> p, call |-> procs[p].call,
                                         put |-> FALSE, raised |-> FALSE])
    /\ UNCHANGED <<pvars, fvars, uvars, tvars, dvars, nvars, last_read>>

\* The lock manager's acquire returns: the lock was free and is now held by
\* the session of p.
ConsulAcquire(p) ==
    /\ procs[p].pc = "acquire"
    /\ lock_holder = NoHolder
    /\ lock_holder' = p
    /\ procs' = [procs EXCEPT ![p].pc = "locked"]
    /\ lock_order' = Append(lock_order, [process |-> p, call |-> procs[p].call,
                                         put |-> FALSE, raised |-> FALSE])
    /\ UNCHANGED <<pvars, fvars, uvars, tvars, dvars, nvars, last_read>>

\* The entry of lock_order for the call process p is in.
LastEntryOf(p) ==
    CHOOSE i \in 1..Len(lock_order) :
        /\ lock_order[i].process = p
        /\ \A j \in 1..Len(lock_order) : lock_order[j].process = p => j <= i

\* Lines 185 and 191: the value is read under the lock.
ConsulReadLocked(p) ==
    /\ procs[p].pc = "locked"
    /\ procs' = [procs EXCEPT ![p].value = ConsulGetAll(consul_kv), ![p].pc = "read"]
    /\ UNCHANGED <<pvars, fvars, uvars, tvars, dvars, nvars, lock_holder, lock_order, last_read>>

\* Lines 186-187 and 192-193: the value is changed and put.
ConsulPut(p) ==
    /\ procs[p].pc = "read"
    /\ consul_kv' =
          IF procs[p].call.op = "set"
            THEN ConsulSetPut(procs[p].value, procs[p].call.mapping[1][1],
                              procs[p].call.mapping[1][2])
            ELSE ConsulSetAllPut(procs[p].value, procs[p].call.mapping)
    /\ procs' = [procs EXCEPT ![p].pc = "put"]
    /\ lock_order' =
          [i \in 1..Len(lock_order) |->
              IF i = LastEntryOf(p)
                THEN [lock_order[i] EXCEPT !.put = TRUE]
                ELSE lock_order[i]]
    /\ UNCHANGED <<pvars, fvars, uvars, dvars, nvars, memory_data, disk_file, returned, written,
                   lock_holder, last_read>>

\* The with statement is left: the lock is released.
ConsulRelease(p) ==
    /\ procs[p].pc = "put"
    /\ lock_holder' = IF lock_holder = p THEN NoHolder ELSE lock_holder
    /\ procs' = [procs EXCEPT ![p] = [pc |-> "idle", call |-> <<>>, value |-> <<>>]]
    /\ UNCHANGED <<pvars, fvars, uvars, tvars, dvars, nvars, lock_order, last_read>>

\* (mutant) an exception leaves the with block and the lock stays held
ConsulRaiseKeepsLock(p) ==
    /\ procs[p].pc \in {"locked", "read"}
    /\ UNCHANGED lock_holder
    /\ procs' = [procs EXCEPT ![p] = [pc |-> "idle", call |-> <<>>, value |-> <<>>]]
    /\ lock_order' =
          [i \in 1..Len(lock_order) |->
              IF i = LastEntryOf(p)
                THEN [lock_order[i] EXCEPT !.raised = TRUE]
                ELSE lock_order[i]]
    /\ UNCHANGED <<pvars, fvars, uvars, tvars, dvars, nvars, last_read>>

\* The kv.get or json.loads of line 185/191, or the kv.put of line 187/193,
\* raises: the exception leaves the with block, which releases the lock, and
\* the call; nothing was put.
ConsulRaise(p) ==
    /\ procs[p].pc \in {"locked", "read"}
    /\ lock_holder' = IF lock_holder = p THEN NoHolder ELSE lock_holder
    /\ procs' = [procs EXCEPT ![p] = [pc |-> "idle", call |-> <<>>, value |-> <<>>]]
    /\ lock_order' =
          [i \in 1..Len(lock_order) |->
              IF i = LastEntryOf(p)
                THEN [lock_order[i] EXCEPT !.raised = TRUE]
                ELSE lock_order[i]]
    /\ UNCHANGED <<pvars, fvars, uvars, tvars, dvars, nvars, last_read>>

\* Process p calls get_all_checksums, which takes no lock (lines 176-181).
ConsulRead(p) ==
    /\ procs[p].pc = "idle"
    /\ last_read' = [process |-> p, blob |-> consul_kv]
    /\ last_read' # last_read
    /\ UNCHANGED <<pvars, fvars, uvars, tvars, dvars, nvars, procs, lock_holder, lock_order>>

\* Process p is killed while its session holds the lock.
ConsulCrash(p) ==
    /\ procs[p].pc \in {"locked", "read", "put"}
    /\ \A q \in Procs : procs[q].pc # "crashed"
    /\ procs' = [procs EXCEPT ![p].pc = "crashed"]
    /\ UNCHANGED <<pvars, fvars, uvars, tvars, dvars, nvars, lock_holder, lock_order, last_read>>

\* (mutant) the session of a killed process is kept alive for ever
ConsulSessionKept ==
    /\ lock_holder # NoHolder
    /\ procs[lock_holder].pc = "crashed"
    /\ UNCHANGED vars

\* The session of a killed process is not renewed: after the time to live
\* given at lines 167-169 Consul invalidates it, which frees the lock.
ConsulSessionExpires ==
    /\ lock_holder # NoHolder
    /\ procs[lock_holder].pc = "crashed"
    /\ lock_holder' = NoHolder
    /\ UNCHANGED <<pvars, fvars, uvars, tvars, dvars, nvars, procs, lock_order, last_read>>

ConsulNext ==
    \/ \E p \in Procs : \E call \in ConsulCalls(p) : ConsulCall(p, call)
    \/ \E p \in Procs : ConsulAcquire(p)
    \/ \E p \in Procs : ConsulReadLocked(p)
    \/ \E p \in Procs : ConsulPut(p)
    \/ \E p \in Procs : ConsulRelease(p)
    \/ \E p \in Procs : ConsulRaise(p)
    \/ \E p \in Procs : ConsulRead(p)
    \/ \E p \in Procs : ConsulCrash(p)
    \/ ConsulSessionExpires

\* Every process that is not killed goes on, and Consul invalidates a session
\* that is not renewed.
ConsulFairness ==
    /\ \A p \in Procs :
          /\ WF_vars(ConsulAcquire(p))
          /\ WF_vars(ConsulReadLocked(p))
          /\ WF_vars(ConsulPut(p))
          /\ WF_vars(ConsulRelease(p))
    /\ WF_vars(ConsulSessionExpires)

ConsulSpec == ConsulInit /\ [][ConsulNext]_vars /\ ConsulFairness

----------------------------------------------------------------------------
\* DiskChecksumStorage on a file shared by several processes
\* (storage.py lines 97-109)

\* The number of set_checksum calls the processes make in all.
MaxSets == 3

\* A file without content, and the content of a file to which a second JSON
\* text was appended.
EmptyFile == [text |-> "", members |-> <<>>]
AppendedTo(file, json) == [text |-> "objects", members |-> file.members \o json.members]

\* The identifier process p writes: each process its own.
WriterId(p) == IdOrder[p]

\* The processes inside set_checksum.
ActiveWriters == {p \in Procs : writers[p].pc # "idle"}

\* The disk storage of the processes, the file not yet existing.
DiskInit ==
    /\ BuilderIdle
    /\ UploadStreamIdle
    /\ StoragesEmpty
    /\ ConsulIdle
    /\ DiskWritersIdle
    /\ ContainerEmpty
    /\ FilesIdle

\* Process p calls set_checksum (line 97).
DiskCall(p, checksum) ==
    /\ writers[p].pc = "idle"
    /\ disk_log.calls < MaxSets
    /\ writers' = [writers EXCEPT ![p] =
                      [pc |-> "called", id |-> WriterId(p), checksum |-> checksum,
                       configuration |-> [assigned |-> FALSE, items |-> <<>>]]]
    /\ disk_log' = [disk_log EXCEPT !.calls = @ + 1,
                                    !.overlapped = @ \/ ActiveWriters # {}]
    /\ UNCHANGED <<pvars, fvars, uvars, tvars, kvars, nvars>>

\* Lines 98-100: the configuration is empty when the file does not exist.
DiskExists(p) ==
    /\ writers[p].pc = "called"
    /\ writers' = [writers EXCEPT
                      ![p].pc = "checked",
                      ![p].configuration = [assigned |-> disk_file = NoFile, items |-> <<>>]]
    /\ UNCHANGED <<pvars, fvars, uvars, tvars, kvars, nvars, disk_log>>

\* Line 102: open(..., "a+") creates the file when it does not exist.
DiskOpen(p) ==
    /\ writers[p].pc = "checked"
    /\ disk_file' = IF disk_file = NoFile THEN EmptyFile ELSE disk_file
    /\ writers' = [writers EXCEPT ![p].pc = "opened"]
    /\ UNCHANGED <<pvars, fvars, uvars, kvars, nvars, memory_data, consul_kv, returned,
                   written, disk_log>>

\* (mutant) nothing is loaded from the file
DiskLoadedNothing(file) == <<>>

\* Line 105: json.load(file) of a file that holds one JSON text.
DiskLoaded(file) == JsonLoads(file)

\* Lines 103-106: the configuration is loaded unless line 100 has set it.
DiskLoad(p) ==
    /\ writers[p].pc = "opened"
    /\ \/ /\ writers[p].configuration.assigned
          /\ writers' = [writers EXCEPT ![p].pc = "loaded"]
          /\ UNCHANGED disk_log
       \/ /\ ~writers[p].configuration.assigned
          /\ disk_file.text = "object"
          /\ writers' = [writers EXCEPT
                            ![p].pc = "loaded",
                            ![p].configuration =
                                [assigned |-> TRUE, items |-> DiskLoaded(disk_file)]]
          /\ UNCHANGED disk_log
       \/ \* json.load raises JSONDecodeError: the file is empty or holds
          \* more than one text
          /\ ~writers[p].configuration.assigned
          /\ disk_file.text # "object"
          /\ writers' = [writers EXCEPT
                            ![p] = [pc |-> "idle", id |-> "", checksum |-> <<>>,
                                    configuration |-> [assigned |-> FALSE, items |-> <<>>]]]
          /\ disk_log' = [disk_log EXCEPT !.raised = TRUE]
    /\ UNCHANGED <<pvars, fvars, uvars, tvars, kvars, nvars>>

\* Line 107: the file is truncated at its start.
DiskTruncate(p) ==
    /\ writers[p].pc = "loaded"
    /\ disk_file' = EmptyFile
    /\ writers' = [writers EXCEPT ![p].pc = "truncated"]
    /\ UNCHANGED <<pvars, fvars, uvars, kvars, nvars, memory_data, consul_kv, returned,
                   written, disk_log>>

\* Lines 108-109 and the end of the with block: the configuration is written,
\* in append mode at the end of whatever the file holds by then.
DiskWrite(p) ==
    /\ writers[p].pc = "truncated"
    /\ disk_file' =
          LET json == DiskSetWrite(writers[p].configuration.items,
                                   writers[p].id, writers[p].checksum)
          IN  IF disk_file = EmptyFile THEN json ELSE AppendedTo(disk_file, json)
    /\ writers' = [writers EXCEPT
                      ![p] = [pc |-> "idle", id |-> "", checksum |-> <<>>,
                              configuration |-> [assigned |-> FALSE, items |-> <<>>]]]
    /\ disk_log' = [disk_log EXCEPT
                       !.returned = DictUpdate(@, [k \in {writers[p].id} |->
                                                     writers[p].checksum])]
    /\ UNCHANGED <<pvars, fvars, uvars, kvars, nvars, memory_data, consul_kv, returned,
                   written>>

DiskNext ==
    \/ \E p \in Procs : \E checksum \in ChecksumValues : DiskCall(p, checksum)
    \/ \E p \in Procs : DiskExists(p)
    \/ \E p \in Procs : DiskOpen(p)
    \/ \E p \in Procs : DiskLoad(p)
    \/ \E p \in Procs : DiskTruncate(p)
    \/ \E p \in Procs : DiskWrite(p)

DiskSpec == DiskInit /\ [][DiskNext]_vars

----------------------------------------------------------------------------
\* BuildConfigurationContainer (containers.py)

\* The longest iterable given to add_all.
MaxAddAll == 2

\* The build configurations given to a container: configurations of the same
\* identifier differ in their content.
ContainerConfigurations == [identifier : Ids, content : {1, 2}]

\* s without the elements equal to x
Without(s, x) == SelectSeq(s, LAMBDA y : y # x)

\* (mutant) add() appends the configuration whatever the container holds
ContainerAddAppended(d, cfg) == Append(d, <<cfg.identifier, cfg>>)

\* BuildConfigurationContainer.add (lines 38-43)
ContainerAdded(d, cfg) == DictSetItem(d, cfg.identifier, cfg)

\* BuildConfigurationContainer.add_all (lines 45-51)
RECURSIVE ContainerAddedAll(_, _)
ContainerAddedAll(d, cfgs) ==
    IF cfgs = <<>> THEN d
    ELSE ContainerAddedAll(ContainerAdded(d, Head(cfgs)), Tail(cfgs))

\* del d[key], the key being present
DictDelItem(d, key) == SelectSeq(d, LAMBDA item : item[1] # key)

\* BuildConfigurationContainer.__iter__ (lines 15-17)
ContainerIter(d) == [i \in 1..Len(d) |-> d[i][2]]

\* BuildConfigurationContainer.__len__ (lines 22-23)
ContainerLen(d) == Len(d)

\* The log after the configurations cfgs were added one after the other:
\* order holds the identifiers from the least to the most recently added, and
\* resident the configuration last added for each.
RECURSIVE LogAdded(_, _)
LogAdded(log, cfgs) ==
    IF cfgs = <<>> THEN log
    ELSE LogAdded([log EXCEPT
                      !.order = Append(Without(@, Head(cfgs).identifier),
                                       Head(cfgs).identifier),
                      !.placed = IF Head(cfgs).identifier \in Range(@) THEN @
                                 ELSE Append(@, Head(cfgs).identifier),
                      !.resident = DictUpdate(@, [k \in {Head(cfgs).identifier} |->
                                                    Head(cfgs)])],
                  Tail(cfgs))

ContainerInit ==
    /\ BuilderIdle
    /\ UploadStreamIdle
    /\ StoragesEmpty
    /\ ConsulIdle
    /\ DiskWritersIdle
    /\ ContainerEmpty
    /\ FilesIdle

\* add(cfg)
ContainerAdd(cfg) ==
    /\ container' = ContainerAdded(container, cfg)
    /\ container_log' = [LogAdded(container_log, <<cfg>>) EXCEPT
                            !.call = "add", !.raised = FALSE]
    /\ UNCHANGED <<pvars, fvars, uvars, tvars, kvars, dvars>>

\* add_all(cfgs)
ContainerAddAll(cfgs) ==
    /\ container' = ContainerAddedAll(container, cfgs)
    /\ container_log' = [LogAdded(container_log, cfgs) EXCEPT
                            !.call = "add_all", !.raised = FALSE]
    /\ UNCHANGED <<pvars, fvars, uvars, tvars, kvars, dvars>>

\* remove(cfg) (lines 53-59): KeyError when no configuration of that
\* identifier is in the container.
ContainerRemove(cfg) ==
    /\ IF cfg.identifier \in Keys(container)
         THEN /\ container' = DictDelItem(container, cfg.identifier)
              /\ container_log' =
                    [call |-> "remove", raised |-> FALSE,
                     order |-> Without(container_log.order, cfg.identifier),
                     placed |-> Without(container_log.placed, cfg.identifier),
                     resident |-> [k \in DOMAIN container_log.resident
                                            \ {cfg.identifier} |->
                                      container_log.resident[k]]]
         ELSE /\ container' = container
              /\ container_log' = [container_log EXCEPT
                                      !.call = "remove", !.raised = TRUE]
    /\ UNCHANGED <<pvars, fvars, uvars, tvars, kvars, dvars>>

ContainerNext ==
    \/ \E cfg \in ContainerConfigurations : ContainerAdd(cfg)
    \/ \E n \in 0..MaxAddAll : \E cfgs \in [1..n -> ContainerConfigurations] :
          ContainerAddAll(cfgs)
    \/ \E cfg \in ContainerConfigurations : ContainerRemove(cfg)

ContainerSpec == ContainerInit /\ [][ContainerNext]_vars

----------------------------------------------------------------------------
\* DockerBuildConfiguration and the checksum of its used files
\* (build_configurations.py, checksums.py)

\* The paths of the context: the source of the ADD command and what can be
\* beneath it; and the files outside the context.
ContextPaths == {"src", "src/d", "src/f"}
OutsidePaths == {"out1", "out2"}
PathOrder == <<"out1", "out2", "src", "src/d", "src/f">>
Children(path) == IF path = "src" THEN {"src/d", "src/f"} ELSE {}

\* What can be at a path.
Absent == [kind |-> "absent", bytes |-> 0, mode |-> 0, target |-> ""]
RegularFile(bytes, mode) == [kind |-> "file", bytes |-> bytes, mode |-> mode, target |-> ""]
Directory(mode) == [kind |-> "dir", bytes |-> 0, mode |-> mode, target |-> ""]
SymbolicLink(target) == [kind |-> "link", bytes |-> 0, mode |-> 511, target |-> target]

\* The Dockerfiles: with and without a FROM command, both with an ADD of src.
FromCommand == [cmd |-> "from", value |-> <<"base">>]
AddCommand == [cmd |-> "add", value |-> <<"src", "dest">>]
RunCommand == [cmd |-> "run", value |-> <<"true">>]
Dockerfiles == {<<FromCommand, AddCommand>>, <<RunCommand, AddCommand>>}

\* What os.path and open see through a symbolic link.
Resolved(tree, path) ==
    IF tree[path].kind = "link" THEN tree[path].target ELSE path
Exists(tree, path) == tree[Resolved(tree, path)].kind # "absent"
IsDir(tree, path) == tree[Resolved(tree, path)].kind = "dir"

\* glob(f"{path}/**/*", recursive=True)
Glob(tree, path) == {q \in Children(path) : tree[q].kind # "absent"}

\* DockerBuildConfiguration.requires (lines 80-86): the value of the first
\* FROM command, NoFrom standing for InvalidBuildConfigurationError.
NoFrom == <<"InvalidBuildConfigurationError">>
requires(commands) ==
    LET froms == SelectSeq(commands, LAMBDA command : command.cmd = "from")
    IN  IF froms = <<>> THEN NoFrom ELSE froms[1].value

\* DockerBuildConfiguration.used_files, lines 93-97
SourcePatterns(commands) ==
    UNION {Range(SubSeq(commands[i].value, 1, Len(commands[i].value) - 1)) :
              i \in {j \in 1..Len(commands) : commands[j].cmd \in {"add", "copy"}}}

\* Lines 102-105: the candidates for one source path.
CandidateFiles(tree, source_path) ==
    IF IsDir(tree, source_path) THEN Glob(tree, source_path) ELSE {source_path}

\* DockerBuildConfiguration.used_files (lines 88-111), without .dockerignore
used_files(tree, commands) ==
    UNION {{candidate_file \in CandidateFiles(tree, source_path) :
               Exists(tree, candidate_file) /\ ~IsDir(tree, candidate_file)} :
              source_path \in SourcePatterns(commands)}

\* What the hasher is given for bytes, a relative path and a mode.
BytesCode(bytes) == 100 + bytes
PathCode(path) == CHOOSE i \in 1..Len(PathOrder) : PathOrder[i] = path

\* checksums.py lines 43-47: what is hashed for one used file; open and
\* os.stat follow a symbolic link.
HashedOf(tree, file_path) ==
    (IF ~IsDir(tree, file_path)
       THEN <<BytesCode(tree[Resolved(tree, file_path)].bytes)>> ELSE <<>>)
    \o <<PathCode(file_path), tree[Resolved(tree, file_path)].mode>>

\* ChecksumCalculator.calculate_used_files_checksum (lines 35-48)
RECURSIVE HashedOfAll(_, _)
HashedOfAll(tree, sorted_files) ==
    IF sorted_files = <<>> THEN <<>>
    ELSE HashedOf(tree, Head(sorted_files)) \o HashedOfAll(tree, Tail(sorted_files))

UsedFilesChecksum(tree, commands) ==
    Md5Hasher(HashedOfAll(tree, SelectSeq(PathOrder,
                                          LAMBDA path : path \in used_files(tree, commands))))

\* DockerChecksumCalculator.calculate_configuration_checksum (lines 69-78)
CommandsChecksum(commands) ==
    Md5Hasher([i \in 1..Len(commands) |->
                  CASE commands[i].cmd = "from" -> 1
                    [] commands[i].cmd = "add" -> 2
                    [] OTHER -> 3])

\* DockerChecksumCalculator.calculate_checksum of a calculator that manages
\* nothing: NoFrom when from_image raises.
FilesChecksum(tree, commands) ==
    IF requires(commands) = NoFrom THEN NoFrom
    ELSE Md5Hasher(CommandsChecksum(commands)
                   \o Md5Hasher(UsedFilesChecksum(tree, commands) \o <<>>))

\* The context as it is set up: src is a file, a directory or a link to a
\* file outside the context.
FilesInit ==
    /\ BuilderIdle
    /\ UploadStreamIdle
    /\ StoragesEmpty
    /\ ConsulIdle
    /\ DiskWritersIdle
    /\ ContainerEmpty
    /\ \E src \in {RegularFile(0, 420), Directory(493), SymbolicLink("out1")} :
          fs_tree = [path \in ContextPaths \cup OutsidePaths |->
                        IF path = "src" THEN src
                        ELSE IF path \in OutsidePaths THEN RegularFile(0, 420)
                        ELSE Absent]
    /\ docker_configuration = NoConfiguration
    /\ checksum_log = NoChecksums

\* DockerBuildConfiguration.__init__ (lines 144-160): the Dockerfile is
\* parsed and its commands kept.
Construct(commands) ==
    /\ docker_configuration.state = "none"
    /\ docker_configuration' = [state |-> "constructed", identifier |-> "image",
                         commands |-> commands]
    /\ UNCHANGED <<pvars, uvars, tvars, kvars, dvars, nvars, fs_tree, checksum_log>>

\* The configuration is given to a builder, whose manager adds it to its
\* container (build_configurations.py 196-199, containers.py 38-43).
Manage ==
    /\ docker_configuration.state = "constructed"
    /\ docker_configuration' = [docker_configuration EXCEPT !.state = "managed"]
    /\ container' = ContainerAdded(container, docker_configuration')
    /\ UNCHANGED <<pvars, uvars, tvars, kvars, dvars, container_log, fs_tree,
                   checksum_log>>

\* Builder.build of the managed configuration with an empty store: nothing
\* is up to date, and line 137 reads requires before the backend is called.
PlannerBuild ==
    /\ docker_configuration.state = "managed"
    /\ checksum_log.planner = "none"
    /\ checksum_log' =
          [checksum_log EXCEPT
              !.planner = IF requires(docker_configuration.commands) = NoFrom
                            THEN "InvalidBuildConfigurationError" ELSE "built"]
    /\ UNCHANGED <<pvars, uvars, tvars, kvars, dvars, nvars, fs_tree, docker_configuration>>

\* calculate_checksum(configuration) by a DockerChecksumCalculator().
Calculate ==
    /\ docker_configuration.state # "none"
    /\ checksum_log.calculated = <<>> \/ checksum_log.pending # "none"
    /\ LET checksum == FilesChecksum(fs_tree, docker_configuration.commands) IN
       checksum_log' =
          IF checksum = NoFrom
            THEN [checksum_log EXCEPT !.error = "InvalidBuildConfigurationError",
                                      !.pending = "none"]
            ELSE [checksum_log EXCEPT !.previous = checksum_log.calculated,
                                      !.calculated = checksum,
                                      !.change = checksum_log.pending,
                                      !.pending = "none"]
    /\ UNCHANGED <<pvars, uvars, tvars, kvars, dvars, nvars, fs_tree, docker_configuration>>

\* One change of the file system after a calculation.
Changed(tree, change, path) ==
    /\ checksum_log.calculated # <<>>
    /\ checksum_log.pending = "none"
    /\ fs_tree' = tree
    /\ checksum_log' = [checksum_log EXCEPT !.pending = change, !.path = path]
    /\ UNCHANGED <<pvars, uvars, tvars, kvars, dvars, nvars, docker_configuration>>

\* os.mkdir of an empty directory beneath the source directory.
MakeDirectory ==
    /\ fs_tree["src"].kind = "dir"
    /\ fs_tree["src/d"].kind = "absent"
    /\ Changed([fs_tree EXCEPT !["src/d"] = Directory(493)], "mkdir", "src/d")

\* os.chmod of a directory beneath the source directory.
ChangeDirectoryMode ==
    /\ fs_tree["src/d"].kind = "dir"
    /\ Changed([fs_tree EXCEPT !["src/d"].mode = IF @ = 493 THEN 448 ELSE 493],
               "chmod_dir", "src/d")

\* A file beneath the source directory is created or its bytes change.
WriteFile ==
    /\ fs_tree["src"].kind = "dir"
    /\ Changed([fs_tree EXCEPT !["src/f"] =
                   IF @.kind = "absent" THEN RegularFile(0, 420)
                   ELSE RegularFile(1 - @.bytes, 420)],
               "write_file", "src/f")

\* The bytes of a file outside the context change.
WriteOutside(path) ==
    Changed([fs_tree EXCEPT ![path].bytes = 1 - @], "write_target", path)

\* The link is made to point to the other file outside the context.
Retarget ==
    /\ fs_tree["src"].kind = "link"
    /\ Changed([fs_tree EXCEPT !["src"].target = IF @ = "out1" THEN "out2" ELSE "out1"],
               "retarget", "src")

FilesNext ==
    \/ \E commands \in Dockerfiles : Construct(commands)
    \/ Manage
    \/ PlannerBuild
    \/ Calculate
    \/ MakeDirectory
    \/ ChangeDirectoryMode
    \/ WriteFile
    \/ \E path \in OutsidePaths : WriteOutside(path)
    \/ Retarget

FilesSpec == FilesInit /\ [][FilesNext]_vars

----------------------------------------------------------------------------
\* Properties

\* No chain of FROM references among the managed configurations is a cycle.
NoCycle == \A c \in Managed : ~RaisesRecursionError(Managed, c)

\* The configurations on a cycle of FROM references.
RECURSIVE Ancestor(_, _, _)
Ancestor(c, d, n) ==
    /\ from_image[c] \in Managed
    /\ \/ from_image[c] = d
       \/ n > 0 /\ Ancestor(from_image[c], d, n - 1)

OnCycle(c) == Ancestor(c, c, Cardinality(Managed))

\* c was up to date in the store st
UpToDateIn(st, c) ==
    /\ get_checksum(st, c) # None
    /\ ~RaisesRecursionError(Managed, c)
    /\ get_checksum(st, c) = BuilderChecksum(c)

BuildAllReturned == kind = "build_all" /\ outcome = "returned"

LogCfgs == [i \in 1..Len(backend_log) |-> backend_log[i].cfg]

\* C1: when build_all() has returned normally on a manager without cycles,
\* every managed configuration is a key of the returned map or was up to date
\* in the store at entry.
C1_BuildAllCoversAll ==
    (BuildAllReturned /\ NoCycle /\ phase = "off") =>
        \A c \in Managed : c \in Range(result) \/ UpToDateIn(store_at_entry, c)

\* build_all() has returned a map that holds some configurations and leaves
\* out others.
C1_Witness ==
    /\ BuildAllReturned /\ NoCycle /\ phase = "off"
    /\ Range(result) # {}
    /\ Range(result) # Managed

\* C2: whenever a configuration and its managed parent are both passed to the
\* backend in one invocation, the parent's call comes first and has returned
\* successfully by the time the child's call begins.
C2_ParentBuiltBeforeChild ==
    \A i, j \in 1..Len(backend_log) :
        (i # j /\ from_image[backend_log[j].cfg] = backend_log[i].cfg) =>
            (i < j /\ backend_log[i].status = "ok")

\* build_all() popped a child first and the backend was called for its
\* parent and then for the child.
C2_Witness ==
    /\ kind = "build_all"
    /\ Len(backend_log) >= 2
    /\ from_image[backend_log[2].cfg] = backend_log[1].cfg
    /\ Len(stack) = 1 /\ stack[1].cfg = backend_log[2].cfg

\* The chain g <- p <- c, recorded as up to date with the files at version 0,
\* after which the files of g changed.
ChainAfterChangeOfG ==
    /\ from_image = [c \in Managed |->
                        IF c = "g" THEN External ELSE IF c = "p" THEN "g" ELSE "p"]
    /\ files = [c \in Managed |-> IF c = "g" THEN 1 ELSE 0]
    /\ store_at_entry =
           [c \in Managed |-> calculate_checksum(Managed, [x \in Managed |-> 0], c)]
    /\ kind = "build_all"
    /\ phase = "off"

IsPrefix(s, t) == Len(s) <= Len(t) /\ s = SubSeq(t, 1, Len(s))

\* C3: in that case build_all() calls the backend for g, then p, then c, each
\* once, whatever it pops first: the calls made so far are always a prefix of
\* g, p, c, and when build_all() has returned they are exactly g, p, c.
C3_TransitiveRebuildInOrder ==
    ChainAfterChangeOfG =>
        /\ IsPrefix(LogCfgs, <<"g", "p", "c">>)
        /\ outcome = "returned" =>
              (LogCfgs = <<"g", "p", "c">> /\ result = <<"g", "p", "c">>)

\* build_all() popped c first and the build of c has built g, p and c.
C3_Witness ==
    /\ ChainAfterChangeOfG
    /\ Len(stack) = 1 /\ stack[1].cfg = "c" /\ stack[1].pc = "return"
    /\ stack[1].build_results = <<"g", "p", "c">>

\* C4: on a manager with a cycle, build_all() ends by raising
\* CircularDependencyBuildError whatever the store holds, and the backend is
\* never called for a configuration on the cycle (a failure of the backend for
\* another configuration aside).
C4_CycleRaisesCircularDependency ==
    (kind = "build_all" /\ phase = "off" /\ ~NoCycle
        /\ outcome \notin {"running", "BuildFailedError"}) =>
        /\ outcome = "CircularDependencyBuildError"
        /\ \A i \in 1..Len(backend_log) : ~OnCycle(backend_log[i].cfg)

PushedIds == {x[1] : x \in pushed}

\* C5: a run that follows a run which built, published and recorded (with a
\* persistent store, at least one registry and no always_upload flag) calls
\* the backend for no configuration.
C5_SecondRunBuildsNothing ==
    (/\ runs = 2 /\ previous.phase = "done"
     /\ registries >= 1 /\ ~storage_is_memory
     /\ \A c \in Managed : ~always_upload[c]) =>
        backend_log = <<>>

\* The configuration whose upload is in progress or failed.
Uploading == to_upload[upload_index]

UploadFailed == phase = "failed" /\ outcome = "UploadError"

\* C6 (as claimed): when the push of a configuration fails, at whichever
\* registry, the store's entry for it is what it was before the run.
C6_FailedPublishLeavesEntry ==
    UploadFailed =>
        get_checksum(store, Uploading) = get_checksum(store_at_entry, Uploading)

\* C6 (amended): when the push of a configuration fails and no registry has
\* accepted that configuration earlier in the run, the store's entry for it
\* is what it was before the run.
C6_FailedFirstPublishLeavesEntry ==
    (UploadFailed /\ Uploading \notin PushedIds) =>
        get_checksum(store, Uploading) = get_checksum(store_at_entry, Uploading)

\* The push of the second configuration to upload failed at the first
\* registry, after the first configuration was pushed and recorded.
C6_Witness ==
    /\ UploadFailed /\ Uploading \notin PushedIds
    /\ upload_index = 2
    /\ store # store_at_entry

\* C7: once the upload loop has ended, the store's entry of every uploaded
\* configuration is the checksum the builder's calculator computes for it,
\* which is also the one main prints.
C7_RecordedChecksumIsBuilders ==
    (phase \in {"print", "done"} /\ registries >= 1) =>
        \A c \in Range(to_upload) :
            /\ get_checksum(store, c) = BuilderChecksum(c)
            /\ c \in DOMAIN printed => printed[c] = get_checksum(store, c)

\* C8 (as claimed): every identifier in the store has been pushed
\* successfully, in this run or before it.
C8_StoredWasPushed == DOMAIN store \subseteq published_before \cup PushedIds

\* C8 (amended): every identifier in the store was in the store when main
\* called build_all (its content at the start or read from stdin) or has been
\* pushed successfully in this run.
C8_StoredWasGivenOrPushed ==
    phase # "idle" => DOMAIN store \subseteq DOMAIN store_at_entry \cup PushedIds

\* The run recorded an identifier the store did not hold.
C8_Witness ==
    /\ phase = "done"
    /\ DOMAIN store # DOMAIN store_at_entry

\* C9: from the call of build() or build_all() on, while it runs and when it
\* has returned or raised, the persistent store is what it was at entry.
C9_BuilderLeavesStore ==
    (phase = "off" /\ kind # "none") => store = store_at_entry

\* build() returned after building a configuration and its parent.
C9_Witness ==
    /\ phase = "off" /\ kind = "build" /\ outcome = "returned"
    /\ Len(result) >= 2
    /\ store = store_at_entry

\* C9, the consequence: a run that follows a run killed between build_all and
\* the uploads builds the same configurations.
C9_RerunAfterCrashBuildsSame ==
    (runs = 2 /\ previous.phase = "crashed" /\ ~storage_is_memory
        /\ phase = "build_all" /\ outcome = "returned") =>
        Range(result) = previous.built

\* C10: a set_all on a layered storage leaves the persistent store and the
\* storages below as they are, and afterwards a get answers the value set for
\* an identifier that was set and what it answered before for any other; a
\* get answers the overlay's value when the overlay has the identifier and
\* the value of the storage below otherwise.
C10_LayeredStorage ==
    [][/\ \A id \in Managed :
             LayeredGet(stack, ba_overlay, store, 0, id) =
                 IF id \in DOMAIN ba_overlay THEN ba_overlay[id]
                 ELSE get_checksum(store, id)
       /\ (kind = "build_all" /\ Len(stack) = 1 /\ stack' = <<>>
              /\ outcome' = "running") =>
             /\ store' = store
             /\ \A id \in Managed :
                   LayeredGet(stack', ba_overlay', store', 0, id) =
                       IF id \in Range(stack[1].build_results)
                         THEN BuilderChecksum(id)
                         ELSE LayeredGet(stack, ba_overlay, store, 0, id)
       /\ (Len(stack) >= 2 /\ Len(stack') = Len(stack) - 1
              /\ outcome' = "running") =>
             LET k == Len(stack') IN
             /\ store' = store
             /\ ba_overlay' = ba_overlay
             /\ \A j \in 1..(k - 1) : stack'[j] = stack[j]
             /\ \A id \in Managed :
                   LayeredGet(stack', ba_overlay', store', k, id) =
                       IF id \in Range(stack'[k].build_results)
                         THEN BuilderChecksum(id)
                         ELSE LayeredGet(stack, ba_overlay, store, k, id)
      ]_vars

\* A frame's layered storage holds a checksum that shadows a different entry
\* of the persistent store.
C10_Witness ==
    /\ stack # <<>>
    /\ \E id \in DOMAIN Top.overlay :
          /\ id \in DOMAIN store
          /\ store[id] # Top.overlay[id]
          /\ LayeredGet(stack, ba_overlay, store, Len(stack), id) = Top.overlay[id]

\* The layered storage of frame k answers for id (or, for k = 0, the layered
\* storage of build_all).
LayeredView(k, id) == LayeredGet(stack, ba_overlay, store, k, id)

\* C11: the up-to-date test of build() answers from the layered storage of
\* the frame that takes the decision: for every frame in progress and every
\* configuration whose checksum its layered storage holds, the test answers
\* whether that checksum is the current one; so a parent built in this
\* invocation, whose checksum is in the overlay, tests as up to date.
C11_DecisionsReadLayeredStore ==
    \A k \in 1..Len(stack) : \A id \in Managed :
        (LayeredView(k, id) # None /\ ~RaisesRecursionError(Managed, id)) =>
            (_already_up_to_date(id) <=> LayeredView(k, id) = BuilderChecksum(id))

\* C11, what holds: at the points where build() does take the test (lines 131
\* and 142) the layered storage holds no checksum written in this invocation
\* for the tested configuration, so the persistent store's answer is the
\* layered storage's answer.
C11_TakenDecisionsAgree ==
    (outcome = "running" /\ stack # <<>> /\ Top.pc = "enter" /\ Top.cfg \in Managed) =>
        \A id \in {Top.cfg} \cup
                  ({from_image[Top.cfg]} \cap Managed
                      \cap (IF Top.allowed = NoneArg THEN Managed ELSE Top.allowed)) :
            LayeredView(Len(stack), id) = get_checksum(store, id)

\* A caller's build(cfg, allowed_builds) with arguments that build accepts.
BuildRequested ==
    /\ kind = "build" /\ phase = "off"
    /\ request.cfg \in Managed
    /\ request.allowed_builds = NoneArg \/ request.allowed_builds \subseteq Managed

BackendCalledFor(c) == \E i \in 1..Len(backend_log) : backend_log[i].cfg = c

\* C12: build(cfg) calls the backend for no configuration and returns the
\* empty map when the store holds cfg's current checksum; whenever it returns
\* otherwise, the map is not empty and cfg is its last key, built by the
\* backend; in particular cfg is built when the store has no entry for it.
C12_EmptyIffUpToDate ==
    BuildRequested =>
        /\ UpToDateIn(store_at_entry, request.cfg) =>
              /\ backend_log = <<>>
              /\ outcome \in {"running", "returned"}
              /\ outcome = "returned" => result = <<>>
        /\ (outcome = "returned" /\ ~UpToDateIn(store_at_entry, request.cfg)) =>
              /\ result # <<>>
              /\ result[Len(result)] = request.cfg
              /\ backend_log[Len(backend_log)] =
                     [cfg |-> request.cfg, status |-> "ok"]
        /\ (outcome = "returned" /\ get_checksum(store_at_entry, request.cfg) = None) =>
              request.cfg \in Range(result)

\* build(cfg) returned the empty map for a configuration whose parent is
\* managed, allowed and not up to date.
C12_Witness ==
    /\ BuildRequested /\ outcome = "returned" /\ result = <<>>
    /\ UpToDateIn(store_at_entry, request.cfg)
    /\ from_image[request.cfg] \in Managed \ {request.cfg}
    /\ request.allowed_builds = NoneArg
    /\ get_checksum(store, from_image[request.cfg]) = None

\* build(cfg) built a configuration for which the store held a stale entry.
C12_WitnessStale ==
    /\ BuildRequested /\ outcome = "returned"
    /\ get_checksum(store_at_entry, request.cfg) # None
    /\ request.cfg \in Range(result)

\* No frame's overlay and no overlay of build_all holds a checksum.
NoOverlayWritten ==
    /\ ba_overlay = EmptyDict
    /\ \A k \in 1..Len(stack) : stack[k].overlay = EmptyDict

\* The caller's arguments name a configuration that is not managed.
UnmanagedRequested ==
    /\ kind = "build" /\ phase = "off"
    /\ \/ request.cfg \notin Managed
       \/ /\ request.allowed_builds # NoneArg
          /\ ~(request.allowed_builds \subseteq Managed)

\* C13: build(cfg, allowed) with cfg not managed, or with a configuration in
\* allowed that is not managed, raises UnmanagedBuildError, and the backend is
\* not called and no store is written; with managed arguments it never raises
\* that error, allowed_builds is the managed set when omitted, and cfg is in
\* it (and is built) even when the caller's set leaves it out.
C13_UnmanagedBuildRaises ==
    /\ UnmanagedRequested =>
          /\ outcome \in {"running", "UnmanagedBuildError"}
          /\ outcome = "running" => (Len(stack) = 1 /\ Top.pc = "enter")
          /\ backend_log = <<>>
          /\ store = store_at_entry
          /\ NoOverlayWritten
    /\ BuildRequested =>
          /\ outcome \notin {"UnmanagedBuildError", "AssertionError"}
          /\ (stack # <<>> /\ stack[1].pc # "enter") =>
                stack[1].allowed =
                    (IF request.allowed_builds = NoneArg
                       THEN Managed ELSE request.allowed_builds) \cup {request.cfg}
          /\ (outcome = "returned" /\ ~UpToDateIn(store_at_entry, request.cfg)) =>
                request.cfg \in Range(result)

\* build raised UnmanagedBuildError for a managed configuration because of
\* what the caller allowed.
C13_Witness ==
    /\ UnmanagedRequested /\ request.cfg \in Managed
    /\ outcome = "UnmanagedBuildError"

\* build returned the configuration, built, although the caller's allowed set
\* left it out.
C13_WitnessNotInAllowed ==
    /\ BuildRequested /\ outcome = "returned"
    /\ request.allowed_builds # NoneArg /\ request.cfg \notin request.allowed_builds
    /\ request.cfg \in Range(result)

\* What the caller's build may build: allowed (all managed when omitted) plus cfg.
RequestAllowed ==
    (IF request.allowed_builds = NoneArg THEN Managed ELSE request.allowed_builds)
        \cup {request.cfg}

\* The requested configuration is to be built and its parent is to be skipped:
\* the parent is not managed, not allowed or up to date.
ParentToSkip ==
    /\ BuildRequested
    /\ ~UpToDateIn(store_at_entry, request.cfg)
    /\ \/ from_image[request.cfg] \notin Managed
       \/ from_image[request.cfg] \notin RequestAllowed
       \/ UpToDateIn(store_at_entry, from_image[request.cfg])

\* C14: build(cfg, allowed) calls the backend only for configurations in
\* allowed plus cfg and never for one that is up to date, and the keys of the
\* returned map are in allowed plus cfg; when cfg's parent is not managed, not
\* in allowed or up to date, no build of the parent is begun, the backend is
\* called for cfg alone, the map returned is {cfg}, and no error is raised
\* for the parent (what can end the build is a failure of the backend, or
\* the checksum of cfg itself not being computable).
C14_OnlyAllowedAreBuilt ==
    /\ BuildRequested =>
          /\ \A i \in 1..Len(backend_log) :
                /\ backend_log[i].cfg \in RequestAllowed
                /\ ~UpToDateIn(store_at_entry, backend_log[i].cfg)
          /\ Range(result) \subseteq RequestAllowed
          /\ \A k \in 1..Len(stack) :
                Range(stack[k].build_results) \subseteq RequestAllowed
    /\ ParentToSkip =>
          /\ Len(stack) <= 1
          /\ IsPrefix(LogCfgs, <<request.cfg>>)
          /\ outcome \in {"running", "returned", "BuildFailedError", "RecursionError"}
          /\ outcome = "RecursionError" =>
                (get_checksum(store_at_entry, request.cfg) # None
                    /\ RaisesRecursionError(Managed, request.cfg))
          /\ outcome = "returned" => result = <<request.cfg>>

\* build returned {cfg} alone although cfg's managed parent was not up to
\* date, because the caller did not allow the parent.
C14_Witness ==
    /\ ParentToSkip /\ outcome = "returned" /\ result = <<request.cfg>>
    /\ from_image[request.cfg] \in Managed \ RequestAllowed
    /\ ~UpToDateIn(store_at_entry, from_image[request.cfg])

\* build returned {cfg} alone because cfg's managed and allowed parent was up
\* to date.
C14_WitnessUpToDateParent ==
    /\ ParentToSkip /\ outcome = "returned" /\ result = <<request.cfg>>
    /\ from_image[request.cfg] \in Managed \cap RequestAllowed
    /\ UpToDateIn(store_at_entry, from_image[request.cfg])

\* C15: when the backend has failed for a configuration, that call is the
\* last call of the backend in the invocation (no retry, no other build), the
\* invocation of build() or build_all() has ended with BuildFailedError with
\* every frame left, and no map is returned; and the invocation ends with
\* that error only in this way.
C15_BackendFailureEndsInvocation ==
    (phase = "off") =>
        /\ \A i \in 1..Len(backend_log) :
              backend_log[i].status = "failed" =>
                  /\ i = Len(backend_log)
                  /\ outcome = "BuildFailedError"
                  /\ stack = <<>>
                  /\ left_to_build = {}
                  /\ result = <<>>
                  /\ \A j \in 1..(i - 1) : backend_log[j].cfg # backend_log[i].cfg
        /\ outcome = "BuildFailedError" =>
              (backend_log # <<>> /\ backend_log[Len(backend_log)].status = "failed")

\* build_all() ended with the backend's failure for a child after the parent
\* was built, with other configurations still to build.
C15_Witness ==
    /\ phase = "off" /\ kind = "build_all" /\ outcome = "BuildFailedError"
    /\ Len(backend_log) = 2
    /\ backend_log[1].status = "ok" /\ backend_log[2].status = "failed"
    /\ from_image[backend_log[2].cfg] = backend_log[1].cfg
    /\ \E c \in Managed : ~BackendCalledFor(c) /\ ~UpToDateIn(store_at_entry, c)

BackendFailed ==
    backend_log # <<>> /\ backend_log[Len(backend_log)].status = "failed"

\* C16: on a manager without cycles build_all() returns unless a call of the
\* backend fails; each iteration of its loop takes the popped configuration
\* out of left_to_build, nothing is ever added to left_to_build while the
\* loop runs, and build_all() returns only when left_to_build is empty.
C16_BuildAllTerminates ==
    /\ (kind = "build_all" /\ NoCycle) ~> (outcome = "returned" \/ BackendFailed)
    /\ [][/\ (kind = "build_all" /\ outcome = "running" /\ stack = <<>>
                 /\ stack' # <<>>) =>
                /\ stack'[1].cfg \in left_to_build
                /\ left_to_build' = left_to_build \ {stack'[1].cfg}
          /\ (kind = "build_all" /\ outcome = "running") =>
                left_to_build' \subseteq left_to_build
          /\ (kind = "build_all" /\ outcome = "running" /\ outcome' = "returned") =>
                left_to_build = {}
         ]_vars

\* build_all() returned after three iterations, each of which built the
\* popped configuration alone.
C16_Witness ==
    /\ BuildAllReturned /\ NoCycle /\ phase = "off"
    /\ left_to_build = {}
    /\ Len(result) = 3
    /\ \A i \in 1..3 : from_image[result[i]] \notin {result[j] : j \in 1..(i - 1)}

\* The configurations a run is to push: just built, or flagged always_upload.
ToBePushed == Range(result) \cup {c \in Managed : always_upload[c]}

\* The upload loops have ended without an error.
UploadsEnded == phase \in {"print", "done"} /\ outcome = "returned"

\* C17: a run pushes only configurations that build_all() just built or whose
\* always_upload flag is set; the store entry of any other configuration is
\* what it was when build_all() was called; and when the upload loops have
\* ended, each configuration built or flagged, also one that was up to date
\* and not built, has been pushed to every registry and, with at least one
\* registry, has the store entry the upload recorded.
C17_PushedIffBuiltOrAlways ==
    (phase \notin {"off", "idle"}) =>
        /\ PushedIds \subseteq ToBePushed
        /\ Range(to_upload) \subseteq ToBePushed
        /\ \A c \in Managed \ ToBePushed :
              get_checksum(store, c) = get_checksum(store_at_entry, c)
        /\ UploadsEnded =>
              \A c \in ToBePushed :
                  /\ \A r \in 1..registries : <<c, r>> \in pushed
                  /\ registries >= 1 => get_checksum(store, c) = upload_checksum(c)

\* A run in which the backend built nothing pushed an up-to-date always_upload
\* configuration to two registries and wrote its store entry, and left
\* another configuration's entry alone.
C17_Witness ==
    /\ UploadsEnded /\ registries = 2
    /\ backend_log = <<>>
    /\ \E c \in Managed :
          /\ always_upload[c] /\ UpToDateIn(store_at_entry, c)
          /\ <<c, 1>> \in pushed /\ <<c, 2>> \in pushed
          /\ get_checksum(store, c) = upload_checksum(c)
    /\ \E d \in Managed \ ToBePushed : get_checksum(store, d) # None

\* C18: an always_upload configuration that was not just built and whose pull
\* from a registry failed is skipped for that registry: it is not pushed
\* there.
C18_FailedPullSkipsRegistry ==
    \A x \in pull_failed : x \notin pushed

\* C18, what the code does: a failed pull raises no error and only skips the
\* retagging from that registry; the run goes on to the uploads with the
\* configuration in the list to upload, after everything built, and when the
\* upload loops have ended it has been pushed to every registry, the one
\* whose pull failed included; the run can only fail later, in an upload.
C18_FailedPullStillUploaded ==
    \A x \in pull_failed :
        /\ always_upload[x[1]] /\ x[1] \notin Range(result)
        /\ phase \in {"upload", "record", "print", "done", "failed"}
        /\ to_upload = result \o AlwaysUploadOnly(result)
        /\ x[1] \in Range(to_upload)
        /\ phase = "failed" => outcome = "UploadError"
        /\ UploadsEnded => x \in pushed

\* The run ended normally after the pull of an always_upload configuration
\* failed at the first registry and succeeded at the second, and after
\* build_all() had built another configuration.
C18_PushedWhereThePullFailed ==
    /\ phase = "done" /\ registries = 2
    /\ result # <<>>
    /\ \E c \in Managed : <<c, 1>> \in pull_failed /\ <<c, 2>> \notin pull_failed
                             /\ <<c, 1>> \in pushed

\* C19: when a run has failed in an upload, every configuration pushed
\* earlier in the run has the store entry its upload recorded, and the entry
\* of every configuration not pushed in the run is what it was when
\* build_all() was called.
C19_FailedRunKeepsPublished ==
    UploadFailed =>
        \A c \in Managed :
            IF c \in PushedIds
              THEN get_checksum(store, c) = upload_checksum(c)
              ELSE get_checksum(store, c) = get_checksum(store_at_entry, c)

\* The run failed in the upload of a configuration that has no store entry,
\* after a configuration it had just built was pushed and got a new entry.
C19_Witness ==
    /\ UploadFailed
    /\ Uploading \notin PushedIds /\ get_checksum(store, Uploading) = None
    /\ \E c \in PushedIds \cap Range(result) :
          get_checksum(store, c) # get_checksum(store_at_entry, c)

\* C20: a failed push of one configuration at one registry does not keep the
\* other pushes from being attempted: when the run has ended after a failed
\* push, every other configuration to upload has been pushed to every
\* registry and the failing configuration to every other registry.
C20_PushesAreIndependent ==
    UploadFailed =>
        \A c \in Range(to_upload), r \in 1..registries :
            <<c, r>> # <<Uploading, registry_index>> => <<c, r>> \in pushed

\* C20, what holds: outside the step between a push and its record, every
\* configuration a registry has accepted in the run has its checksum recorded,
\* from the first registry on.
C20_CommittedAfterFirstRegistry ==
    (phase \in {"upload", "print", "done", "failed"}) =>
        \A c \in PushedIds : get_checksum(store, c) = upload_checksum(c)

\* The sub-lines of a stream in the order _upload meets them.
RECURSIVE FlatStream(_)
FlatStream(stream) ==
    IF stream = <<>> THEN <<>> ELSE Head(stream) \o FlatStream(Tail(stream))

\* The positions of the sub-lines that carry an error.
ErrorPositions(stream) ==
    {i \in 1..Len(FlatStream(stream)) : HasError(FlatStream(stream)[i])}

\* The first sub-line that carries an error.
FirstError(stream) ==
    FlatStream(stream)[CHOOSE i \in ErrorPositions(stream) :
                          \A j \in ErrorPositions(stream) : i <= j]

\* The sub-lines _upload has passed over.
SubLinesPassed ==
    Len(FlatStream(SubSeq(upload_stream, 1, line_index - 1))) + sub_line_index - 1

\* C21: the push ends with the first event of the stream that carries an
\* error: with ImageNotFoundError(name, tag) when its text holds "image does
\* not exist", with UploadError(text) otherwise; no event before it carries an
\* error and no event after it is read; and the push completes normally only
\* for a stream in which no event carries an error.
C21_FirstErrorEndsPush ==
    (upload_outcome.status # "idle") =>
        /\ \A i \in 1..SubLinesPassed : ~HasError(FlatStream(upload_stream)[i])
        /\ upload_outcome.status = "pushed" => ErrorPositions(upload_stream) = {}
        /\ upload_outcome.status \in {"ImageNotFoundError", "UploadError"} =>
              /\ ErrorPositions(upload_stream) # {}
              /\ FlatStream(upload_stream)[SubLinesPassed + 1] = FirstError(upload_stream)
              /\ LET text == FirstError(upload_stream)["error"] IN
                 upload_outcome =
                     IF "image does not exist" \in Range(text)
                       THEN [status |-> "ImageNotFoundError",
                             arguments |-> <<"name", "tag">>]
                       ELSE [status |-> "UploadError", arguments |-> <<text>>]
        /\ (upload_outcome.status = "pushing" /\ ErrorPositions(upload_stream) = {}) =>
              SubLinesPassed <= Len(FlatStream(upload_stream))

\* The push ended with ImageNotFoundError at an event of the second line, after
\* a status event and an empty sub-line, with another error behind it.
C21_Witness ==
    /\ upload_outcome.status = "ImageNotFoundError"
    /\ line_index = 2 /\ sub_line_index = 1
    /\ upload_stream[1] = <<[status |-> <<"Pushing">>], EmptySubLine>>
    /\ Len(upload_stream[2]) = 2 /\ HasError(upload_stream[2][2])
    /\ "image does not exist" \notin Range(upload_stream[2][2]["error"])

\* The push ended with UploadError carrying the text of the event.
C21_WitnessUploadError ==
    /\ upload_outcome = [status |-> "UploadError", arguments |-> <<<<"denied">>>>]
    /\ SubLinesPassed >= 1

\* A dict that holds exactly the mappings of m, each key once.
IsDictOf(d, m) == AsMap(d) = m /\ Len(d) = Cardinality(DOMAIN m)

\* C22: for each storage, after any sequence of set and set_all calls,
\* get_all() returns exactly the mapping of every written identifier to the
\* checksum last written for it (set_all having replaced the keys it names
\* and kept the others), get(id) returns that checksum, and get(id) returns
\* None for an identifier never written; and so did the last call made.
C22_LastWriteWins ==
    (returned.call # "none" \/ written = EmptyDict) =>
        /\ IsDictOf(MemoryGetAll(memory_data), written)
        /\ IsDictOf(DiskGetAll(disk_file), written)
        /\ IsDictOf(ConsulGetAll(consul_kv), written)
        /\ \A id \in Ids :
              /\ MemoryGet(memory_data, id) = get_checksum(written, id)
              /\ DiskGet(disk_file, id) = get_checksum(written, id)
              /\ ConsulGet(consul_kv, id) = get_checksum(written, id)
        /\ returned.call = "get_all" =>
              /\ IsDictOf(returned.memory, written)
              /\ IsDictOf(returned.disk, written)
              /\ IsDictOf(returned.consul, written)
        /\ returned.call = "get" =>
              /\ returned.memory = get_checksum(written, returned.argument[1])
              /\ returned.disk = get_checksum(written, returned.argument[1])
              /\ returned.consul = get_checksum(written, returned.argument[1])

\* A set_all of two identifiers has overwritten one checksum, added one and
\* kept a third identifier's.
C22_Witness ==
    /\ returned.call = "set_all" /\ Len(returned.argument) = 2
    /\ DOMAIN written = Ids
    /\ \E id \in Ids \ Keys(returned.argument) : written[id] = <<1>>
    /\ \A id \in Keys(returned.argument) : written[id] = <<2>>
    /\ DiskGetAll(disk_file)[1][2] = <<2>>

\* get(id) returned None for an identifier never written while another was.
C22_WitnessAbsent ==
    /\ returned.call = "get" /\ returned.disk = None /\ returned.consul = None
    /\ written # EmptyDict

\* C23: on the same sequence of get, get_all, set and set_all calls from an
\* empty start the three storages return equal results at every call: equal
\* checksums or None from get, equal dicts from get_all, None from the sets.
C23_StoragesAgree ==
    /\ returned.call \in {"get", "set", "set_all"} =>
          (returned.memory = returned.disk /\ returned.disk = returned.consul)
    /\ returned.call = "get_all" =>
          /\ AsMap(returned.memory) = AsMap(returned.disk)
          /\ AsMap(returned.disk) = AsMap(returned.consul)
          /\ Len(returned.memory) = Len(returned.disk)
          /\ Len(returned.disk) = Len(returned.consul)

\* get_all returned three equal dicts of three identifiers whose items the
\* Consul storage holds in another order than the other two.
C23_Witness ==
    /\ returned.call = "get_all"
    /\ Len(returned.memory) = 3
    /\ returned.memory = returned.disk
    /\ returned.consul # returned.memory

\* The calls of lock_order that have put their value, in lock order.
CommittedCalls == SelectSeq(lock_order, LAMBDA c : c.put)

\* What the first n committed calls wrote, taken one after the other:
\* identifier -> the checksum last written for it.
RECURSIVE WrittenInLockOrder(_)
WrittenInLockOrder(n) ==
    IF n = 0 THEN EmptyDict
    ELSE DictUpdate(WrittenInLockOrder(n - 1), AsMap(CommittedCalls[n].call.mapping))

\* The processes between the acquire and the release of the lock.
InCriticalSection == {p \in Procs : procs[p].pc \in {"locked", "read", "put"}}

\* C24: processes sharing the Consul storage.  The read, the merge and the put
\* of a set or set_all call happen while the calling process holds the lock,
\* so at most one process is between them; no update is lost: the value under
\* the key maps every identifier written to the checksum of the last write in
\* lock order; and a get_all_checksums, which takes no lock, returns a value
\* that some write had committed (or none, before the first write).
C24_WritesSerializedByLock ==
    /\ \A p \in InCriticalSection : lock_holder = p
    /\ Cardinality(InCriticalSection) <= 1
    /\ IsDictOf(ConsulGetAll(consul_kv), WrittenInLockOrder(Len(CommittedCalls)))
    /\ last_read.process # NoHolder =>
          \E n \in 0..Len(CommittedCalls) :
              IsDictOf(ConsulGetAll(last_read.blob), WrittenInLockOrder(n))

\* C24 witness: both processes have written, the second while the first
\* waited for nothing more, and the value holds what both wrote.
C24_Witness ==
    /\ Len(CommittedCalls) = MaxCalls
    /\ {CommittedCalls[i].process : i \in 1..MaxCalls} = Procs
    /\ \A p \in Procs : procs[p].pc = "idle"
    /\ ConsulGet(consul_kv, "a") # ConsulGet(consul_kv, "b")
    /\ ConsulGet(consul_kv, "a") # None
    /\ ConsulGet(consul_kv, "b") # None

\* C24 witness: a process waits for the lock while the other, holding it, has
\* read the value and not yet put it.
C24_WitnessWaiting ==
    \E p, q \in Procs :
        /\ procs[p].pc = "acquire"
        /\ procs[q].pc = "read"
        /\ Len(CommittedCalls) > 0

\* Some process was killed while it held the lock.
HolderCrashed == \E q \in Procs : procs[q].pc = "crashed"

\* C26: when a process has been killed while holding the lock, every process
\* waiting for the lock eventually acquires it and completes its write: the
\* session of the killed process expires, which frees the lock.
C26_CrashedHolderDoesNotBlock ==
    \A p \in Procs :
        (HolderCrashed /\ procs[p].pc = "acquire") ~> (procs[p].pc = "idle")

\* C26 witness: a process was killed holding the lock, which its session
\* still holds, and the other process waits for it.
C26_Witness ==
    \E p, q \in Procs :
        /\ procs[q].pc = "crashed"
        /\ lock_holder = q
        /\ procs[p].pc = "acquire"

\* C26 witness: the process that waited has written after the holder that was
\* killed before it put anything, and is at rest again.
C26_WitnessCompleted ==
    \E p, q \in Procs :
        /\ procs[q].pc = "crashed"
        /\ procs[p].pc = "idle"
        /\ Len(lock_order) = 2
        /\ lock_order[1].process = q /\ ~lock_order[1].put
        /\ lock_order[2].process = p /\ lock_order[2].put
        /\ ConsulGet(consul_kv, "a") = <<p>>

\* C25: a disk storage shared by two processes, each calling set_checksum for
\* its own identifier.  As long as no call has begun while another was still
\* running, the file holds every checksum a returned call has written; the
\* witness is the state this excludes for calls one after the other, reached
\* when the calls overlap: both calls have returned, the file is a JSON
\* object, and the write of one of them is missing from it.
C25_WritesKeptWithoutOverlap ==
    (~disk_log.overlapped /\ ActiveWriters = {}) =>
        /\ ~disk_log.raised
        /\ IsDictOf(DiskGetAll(disk_file), disk_log.returned)

\* C25 witness: the two processes have each set their identifier, both calls
\* have returned without an error, the file holds one JSON object, and one of
\* the two identifiers is not in it.
C25_Witness ==
    /\ ActiveWriters = {}
    /\ ~disk_log.raised
    /\ DOMAIN disk_log.returned = {WriterId(p) : p \in Procs}
    /\ disk_file.text = "object"
    /\ \E p \in Procs : DiskGet(disk_file, WriterId(p)) = None
    /\ \E p \in Procs : DiskGet(disk_file, WriterId(p)) # None

\* The identifiers of the configurations an iteration of the container yields.
IteratedIdentifiers ==
    [i \in 1..Len(ContainerIter(container)) |-> ContainerIter(container)[i].identifier]

\* C27: after any sequence of add, add_all and remove, no two configurations
\* in the container have the same identifier; the configuration held for an
\* identifier is the one added last for it (an add of a present identifier
\* replaces the entry); and the length of the container is the number of
\* identifiers in it.
C27_OneConfigurationPerIdentifier ==
    /\ \A i, j \in 1..Len(IteratedIdentifiers) :
          IteratedIdentifiers[i] = IteratedIdentifiers[j] => i = j
    /\ Range(ContainerIter(container)) =
          {container_log.resident[k] : k \in DOMAIN container_log.resident}
    /\ ContainerLen(container) = Cardinality(Range(IteratedIdentifiers))
    /\ ContainerLen(container) = Cardinality(DOMAIN container_log.resident)

\* C27 witness: an add has replaced a configuration by another of the same
\* identifier, beside a configuration of another identifier.
C27_Witness ==
    /\ container_log.call = "add"
    /\ ContainerLen(container) = 2
    /\ Len(container_log.placed) = 2
    /\ container_log.placed # container_log.order
    /\ \E cfg \in Range(ContainerIter(container)) : cfg.content = 2

\* C27 witness: add_all has added two configurations to a container that
\* held one.
C27_WitnessAddAll ==
    /\ container_log.call = "add_all"
    /\ ContainerLen(container) = 3
    /\ container_log.placed = <<"b", "c", "a">>

\* C28: iterating the container yields the configurations in the order of
\* their most recent add: an add of an identifier already present moves the
\* entry to the end.
C28_IterationInOrderOfLastAdd ==
    IteratedIdentifiers = container_log.order

\* C28, what the container does: an add of an identifier already present
\* replaces the configuration where it is; the iteration is in the order in
\* which the identifiers were added since they were last absent.
C28_ReAddKeepsPlace ==
    IteratedIdentifiers = container_log.placed

\* C28: the state that tells the two orders apart: a was added, then b, then
\* a again, and the iteration yields a before b.
C28_ReAddedIteratedFirst ==
    /\ container_log.call = "add"
    /\ container_log.order = <<"b", "a">>
    /\ IteratedIdentifiers = <<"a", "b">>

\* C29: main decodes stdin, and seeds the store from it, only when the
\* configured storage is the in-memory one; then the store the run begins
\* with is exactly the decoded mapping.  With another storage the start of a
\* run decodes nothing and leaves the store as it was, whatever stdin holds.
C29_StdinSeedsMemoryStorageOnly ==
    [][phase' \in {"build_all", "unreadable"} /\ phase \notin {"build_all", "unreadable"} =>
          /\ run_input'.decoded => storage_is_memory
          /\ ~storage_is_memory => store' = store /\ run_input'.error = "none"
          /\ (storage_is_memory /\ phase' = "build_all") =>
                /\ run_input'.decoded <=> run_input'.given = "json"
                /\ store' = run_input'.content]_vars

\* C29 witness: a run with a storage that is not in memory goes on with a
\* stdin that is not JSON; the store is not empty.
C29_Witness ==
    /\ ~storage_is_memory
    /\ run_input.given = "invalid"
    /\ ~run_input.decoded
    /\ phase = "done"
    /\ store # EmptyDict

\* C29 witness: a run with the in-memory storage has begun with the mapping
\* of stdin as its store.
C29_WitnessSeeded ==
    /\ storage_is_memory
    /\ run_input.decoded
    /\ runs = 1
    /\ phase = "build_all"
    /\ store = run_input.content
    /\ store # EmptyDict

\* The run ended at the decoding of stdin.
StdinUnreadable == phase = "unreadable"

\* C30: when the stdin that is to seed the in-memory storage is not valid
\* JSON, the run ends with UnreadableChecksumStorageError, before the backend
\* is called for any configuration and before anything is written to the
\* store.
C30_UnreadableStdinEndsRun ==
    StdinUnreadable =>
        /\ run_input.error = "UnreadableChecksumStorageError"
        /\ backend_log = <<>>
        /\ store = EmptyDict
        /\ pushed = {}

\* C30, what main does: the run ends at that point, nothing built, written or
\* pushed, with the JSONDecodeError of json.loads.
C30_UnreadableStdinRaisesDecodeError ==
    StdinUnreadable =>
        /\ run_input.error = "JSONDecodeError"
        /\ backend_log = <<>>
        /\ store = EmptyDict
        /\ pushed = {}
        /\ printed = EmptyDict

\* C30: a first run has built and pushed, and the second run, given a stdin
\* that is not JSON, has ended at its decoding.
C30_UnreadableInSecondRun ==
    /\ StdinUnreadable
    /\ runs = 2
    /\ previous.built # {}

\* d is reached from c by FROM references that all name configurations of
\* the container mgr.
RECURSIVE AncestorIn(_, _, _, _)
AncestorIn(mgr, c, d, n) ==
    /\ from_image[c] \in mgr
    /\ \/ from_image[c] = d
       \/ n > 0 /\ AncestorIn(mgr, from_image[c], d, n - 1)

\* The files of the configurations, those of a replaced by others.
OtherFilesFor(a) == {fs \in [Managed -> 0..MaxVer] : fs[a] # files[a]}

\* The checksum of c by a calculator with the container mgr takes in the
\* checksum of the parent exactly when the FROM reference names a
\* configuration of mgr, and the empty string otherwise.
ParentChecksumIffManaged(mgr, c) ==
    /\ calculate_dependency_checksum(mgr, files, c) =
          IF from_image[c] \in mgr
            THEN calculate_checksum(mgr, files, from_image[c])
            ELSE <<>>
    /\ calculate_checksum(mgr, files, c) =
          Md5Hasher(calculate_configuration_checksum(c)
                    \o Md5Hasher(calculate_used_files_checksum(files, c)
                                 \o (IF from_image[c] \in mgr
                                       THEN calculate_checksum(mgr, files, from_image[c])
                                       ELSE <<>>)))

\* C32: the checksum of a configuration takes in the checksum of its parent
\* exactly when its FROM reference names a configuration of the calculator's
\* container, and the empty string otherwise; so the checksum changes whenever
\* an ancestor reached through configurations of the container is replaced by
\* one with other files.  Before an invocation this is checked for every
\* container (no action changes the Dockerfiles or the files, so these states
\* hold every input); after an invocation it is checked for the containers
\* the run uses: the builder's, with every managed configuration, and the
\* uploader's, with none.
C32_ParentChecksumWhenManaged ==
    /\ outcome = "idle" =>
          \A mgr \in SUBSET Managed : \A c \in Managed :
              ~RaisesRecursionError(mgr, c) =>
                  /\ ParentChecksumIffManaged(mgr, c)
                  /\ \A a \in mgr :
                        AncestorIn(mgr, c, a, Cardinality(Managed)) =>
                            \A fs \in OtherFilesFor(a) :
                                calculate_checksum(mgr, fs, c)
                                    # calculate_checksum(mgr, files, c)
    /\ outcome \notin {"idle", "running"} =>
          \A mgr \in {Managed, {}} : \A c \in Managed :
              ~RaisesRecursionError(mgr, c) => ParentChecksumIffManaged(mgr, c)

\* C32 witness: build_all has rebuilt c, whose files and Dockerfile are as
\* recorded, because the files of its grandparent g have changed: c FROM p,
\* p FROM g, all three managed.
C32_Witness ==
    /\ from_image = [g |-> External, p |-> "g", c |-> "p"]
    /\ files = [g |-> 1, p |-> 0, c |-> 0]
    /\ BuildAllReturned
    /\ "c" \in Range(result)
    /\ get_checksum(store_at_entry, "c") =
          calculate_checksum(Managed, [x \in Managed |-> 0], "c")
    /\ BuilderChecksum("c") # get_checksum(store_at_entry, "c")

\* C32 witness: the parent of c is not managed by the calculator, as in the
\* uploader, and contributes nothing.
C32_WitnessUnmanagedParent ==
    /\ BuildAllReturned
    /\ NoCycle
    /\ from_image["c"] = "p"
    /\ calculate_dependency_checksum({}, files, "c") = <<>>
    /\ UploaderChecksum("c") # BuilderChecksum("c")

\* C36: within one build_all() the backend is called at most once for each
\* managed configuration, and none of the planner's assertions fails: the
\* results of a parent are disjoint from the results so far, the requested
\* configuration is not among them, the popped configuration is not among the
\* accumulated results.  This holds for every FROM graph, every file version
\* and every store content.
C36_BackendOncePerConfiguration ==
    kind = "build_all" =>
        /\ \A i, j \in 1..Len(backend_log) :
              backend_log[i].cfg = backend_log[j].cfg => i = j
        /\ outcome # "AssertionError"
        /\ \A i, j \in 1..Len(all_build_results) :
              all_build_results[i] = all_build_results[j] => i = j
        /\ \A k \in 1..Len(stack) :
              /\ \A i, j \in 1..Len(stack[k].build_results) :
                    stack[k].build_results[i] = stack[k].build_results[j] => i = j
              /\ Range(stack[k].build_results) \cap Range(all_build_results) = {}
        /\ stack = <<>> => left_to_build \cap Range(all_build_results) = {}

\* C36 witness: build_all has popped a configuration whose managed parent it
\* has built before, in an earlier pop, and has called the backend for it.
C36_Witness ==
    /\ kind = "build_all"
    /\ outcome = "running"
    /\ Len(stack) = 1
    /\ from_image[stack[1].cfg] \in Range(all_build_results)
    /\ Len(backend_log) = Len(all_build_results) + 1
    /\ backend_log[Len(backend_log)].cfg = stack[1].cfg

\* C35: the mapping a run prints when it ends normally has, with the flag
\* --built-only, exactly the configurations build_all() built in this run
\* as keys, and without the flag exactly the managed configurations; each
\* key maps to the checksum of that configuration.
C35_PrintedBuiltOrAll ==
    phase = "done" =>
        /\ DOMAIN printed = IF run_input.output_built_only THEN Range(result) ELSE Managed
        /\ \A id \in DOMAIN printed : printed[id] = BuilderChecksum(id)

\* C35 witness: a run with the flag has built some configurations and not
\* others, and has printed the built ones.
C35_Witness ==
    /\ phase = "done"
    /\ run_input.output_built_only
    /\ Range(result) # {}
    /\ Range(result) # Managed
    /\ DOMAIN printed = Range(result)

\* C35 witness: a run without the flag has built nothing and has printed all
\* managed configurations.
C35_WitnessAll ==
    /\ phase = "done"
    /\ ~run_input.output_built_only
    /\ result = <<>>
    /\ DOMAIN printed = Managed

\* The position of c in the sequence s of distinct elements, 0 when absent.
IndexIn(s, c) == IF c \in Range(s) THEN CHOOSE i \in 1..Len(s) : s[i] = c ELSE 0

\* c and its parent were both built by build_all() in this run.
BuiltWithParent(c) ==
    /\ c \in Range(result)
    /\ from_image[c] \in Range(result)
    /\ from_image[c] # c

\* C37: a run uploads the configurations in the order in which build_all()
\* built them, followed by the always_upload configurations that were not
\* built; a parent built in this run comes before its children built in this
\* run, so for every registry the parent is pushed and recorded before the
\* child.
C37_PublishedInBuildOrder ==
    phase \in {"upload", "record", "print", "done"} =>
        /\ IsPrefix(result, to_upload)
        /\ \A i \in (Len(result) + 1)..Len(to_upload) :
              always_upload[to_upload[i]] /\ to_upload[i] \notin Range(result)
        /\ \A c \in Managed :
              BuiltWithParent(c) =>
                  /\ IndexIn(to_upload, from_image[c]) < IndexIn(to_upload, c)
                  /\ \A r \in 1..registries :
                        <<c, r>> \in pushed => <<from_image[c], r>> \in pushed
                  /\ (phase = "record" /\ to_upload[upload_index] = c) =>
                        get_checksum(store, from_image[c]) =
                            upload_checksum(from_image[c])

\* C37 witness: in the second registry the child c, built in this run after
\* its parent p, has been pushed and is about to be recorded; p is recorded;
\* g, not built, is uploaded last because of always_upload.
C37_Witness ==
    /\ phase = "record"
    /\ registry_index = 2
    /\ result = <<"p", "c">>
    /\ from_image["c"] = "p"
    /\ to_upload = <<"p", "c", "g">>
    /\ to_upload[upload_index] = "c"
    /\ <<"p", 2>> \in pushed
    /\ <<"g", 2>> \notin pushed

\* C40: in a run without registries nothing is pushed and the store stays as
\* it was when build_all() was called, after the seeding from stdin, whatever
\* was built; a next run on the same store then builds the same
\* configurations again.  (A memory storage does not outlive the run; the
\* next run's store is what its own stdin seeds.)
C40_NoRegistryNoStoreWrite ==
    registries = 0 =>
        /\ pushed = {}
        /\ store = store_at_entry
        /\ (~storage_is_memory /\ runs = 2 /\ previous.phase = "done"
                /\ phase \in {"print", "done"}) =>
              Range(result) = previous.built

\* C40 witness: without registries, the second run on a persistent store has
\* built the configurations the first run had built, and the store is still
\* without them.
C40_Witness ==
    /\ registries = 0
    /\ ~storage_is_memory
    /\ runs = 2
    /\ previous.phase = "done"
    /\ phase = "done"
    /\ Range(result) = previous.built
    /\ Cardinality(Range(result)) >= 2
    /\ \E c \in Range(result) : get_checksum(store, c) = None

\* The process whose put is the step, if the step is one.
Putting(p) == procs[p].pc = "read" /\ procs'[p].pc = "put"

\* C38: every change of the value under the key is the single put of one
\* call made under the lock, and the value put holds the whole mapping of
\* that call, also of a set_all, merged into the value before: no other
\* process can read a value with part of a batch.  The loop of set_checksum
\* calls that the memory and disk storages inherit writes the same two-item
\* batch in two steps, and the file between them holds the first item alone.
C38_SetAllPutsOnce ==
    [][consul_kv' # consul_kv =>
           \E p \in Procs :
               LET m == procs[p].call.mapping IN
               /\ Putting(p)
               /\ lock_holder = p
               /\ \A id \in Ids :
                     ConsulGet(consul_kv', id) =
                         IF id \in Keys(m) THEN DictGet(m, id)
                         ELSE ConsulGet(consul_kv, id)
               /\ Len(m) = 2 =>
                     /\ DiskGet(DiskSet(NoFile, m[1][1], m[1][2]), m[2][1]) = None
                     /\ DiskGet(DiskSetAll(NoFile, m), m[2][1]) = m[2][2]
                     /\ MemoryGet(MemorySet(<<>>, m[1][1], m[1][2]), m[2][1]) = None]_vars

\* C38 witness: process q reads the value just after the set_all of process p
\* has put it, p still holding the lock: it holds both items of the batch,
\* merged over what q had written before.
C38_Witness ==
    \E p, q \in Procs :
        /\ p # q
        /\ procs[p].pc = "put"
        /\ procs[p].call.op = "set_all"
        /\ lock_holder = p
        /\ Len(lock_order) = 2
        /\ lock_order[1].process = q /\ lock_order[1].put
        /\ last_read.process = q
        /\ ConsulGet(last_read.blob, "a") = <<p>>
        /\ ConsulGet(last_read.blob, "b") = <<p>>

\* C39: a process that is not inside set_checksum or set_all_checksums does
\* not hold the lock, whether its last call returned or raised: the with
\* statement releases the lock on every way out.  So the lock is freed by a
\* process that left the call itself; only the lock of a killed process is
\* freed by the expiry of its session.
C39_LockReleasedOnEveryExit ==
    /\ \A p \in Procs : procs[p].pc \in {"idle", "acquire"} => lock_holder # p
    /\ lock_holder # NoHolder =>
          procs[lock_holder].pc \in {"locked", "read", "put", "crashed"}

\* C39 witness: the call of a process has raised under the lock, and the
\* other process has acquired the lock after it while no process was killed.
C39_Witness ==
    \E p, q \in Procs :
        /\ p # q
        /\ Len(lock_order) = 2
        /\ lock_order[1].process = p /\ lock_order[1].raised
        /\ lock_order[2].process = q
        /\ lock_holder = q
        /\ procs[p].pc = "idle"
        /\ \A r \in Procs : procs[r].pc # "crashed"

----------------------------------------------------------------------------
\* Build configurations and the files they use

NoFromConfiguration ==
    /\ docker_configuration.state # "none"
    /\ requires(docker_configuration.commands) = NoFrom

\* C31: a configuration whose Dockerfile has no FROM command is rejected when
\* it is constructed, so no constructed or managed configuration lacks one.
C31_NoFromRejectedAtConstruction ==
    docker_configuration.state # "none" =>
        requires(docker_configuration.commands) # NoFrom

\* C31, what the code does: the configuration is constructed and can be
\* managed; InvalidBuildConfigurationError is raised when its checksum is
\* calculated or the planner builds it, before any checksum or build exists.
C31_NoFromRaisesWhenUsed ==
    NoFromConfiguration =>
        /\ checksum_log.calculated = <<>>
        /\ checksum_log.planner \in {"none", "InvalidBuildConfigurationError"}

\* C31: a configuration with no FROM command is in a manager's container, and
\* both the planner and the checksum calculator have raised on it.
C31_NoFromManaged ==
    /\ NoFromConfiguration
    /\ docker_configuration.state = "managed"
    /\ docker_configuration \in Range(ContainerIter(container))
    /\ checksum_log.planner = "InvalidBuildConfigurationError"
    /\ checksum_log.error = "InvalidBuildConfigurationError"

\* C33: when the source of the ADD command is a directory, a checksum
\* calculated after an empty directory was added beneath it, or after the mode
\* of a directory beneath it was changed, differs from the one before.
C33_DirectoryChangesChangeChecksum ==
    checksum_log.change \in {"mkdir", "chmod_dir"} =>
        checksum_log.calculated # checksum_log.previous

\* C33, what the code does: directories are never among the used files, so
\* those changes leave the checksum as it was, while a file written beneath
\* the source changes it.
C33_DirectoriesNotUsedFiles ==
    /\ checksum_log.change \in {"mkdir", "chmod_dir"} =>
          checksum_log.calculated = checksum_log.previous
    /\ checksum_log.change = "write_file" =>
          checksum_log.calculated # checksum_log.previous

\* C33: a checksum was calculated after the mode of the directory beneath the
\* source was changed.
C33_DirectoryModeChanged ==
    /\ checksum_log.change = "chmod_dir"
    /\ checksum_log.pending = "none"
    /\ fs_tree["src"].kind = "dir"
    /\ fs_tree["src/d"] = Directory(448)

\* The checksum was calculated with the link as it is now, after this change.
LinkChange(change) ==
    /\ fs_tree["src"].kind = "link"
    /\ checksum_log.pending = "none"
    /\ checksum_log.change = change

\* C34: when the source of the ADD command is a symbolic link to a file
\* outside the context, a checksum calculated after the bytes of the link's
\* target were changed, or after the link was made to point to another file
\* outside the context, equals the one before.
C34_LinkNotFollowed ==
    \/ LinkChange("write_target") /\ checksum_log.path = fs_tree["src"].target
    \/ LinkChange("retarget")
    => checksum_log.calculated = checksum_log.previous

\* C34, what the code does: the bytes and the mode are read through the link,
\* so changing the target's bytes changes the checksum, and so does pointing
\* the link to a file with other bytes; a file the link does not point to
\* does not matter.
C34_LinkFollowed ==
    /\ LinkChange("write_target") /\ checksum_log.path = fs_tree["src"].target =>
          checksum_log.calculated # checksum_log.previous
    /\ LinkChange("write_target") /\ checksum_log.path # fs_tree["src"].target =>
          checksum_log.calculated = checksum_log.previous
    /\ LinkChange("retarget") =>
          (checksum_log.calculated = checksum_log.previous
             <=> fs_tree["out1"].bytes = fs_tree["out2"].bytes)

\* C34: a checksum was calculated after the bytes of the link's target changed.
C34_TargetWritten ==
    /\ LinkChange("write_target")
    /\ checksum_log.path = fs_tree["src"].target
    /\ fs_tree[fs_tree["src"].target].bytes = 1

====
